---- MODULE Spec2Model ----
(***************************************************************************)
(* Model of libewmh (m93a/wmcli): the WinOpt placement builder, place(),   *)
(* the layout arithmetic of shape_win / move_win and the client-message    *)
(* dispatch of WindowManager (move_resize_win, send_event, (un)maximize),  *)
(* connect(), list() and win_name().                                       *)
(*                                                                         *)
(* u32 values are held as their signed 32-bit residue: a non-negative v is *)
(* the value v, a negative v stands for 2^32 + v.  Wrapping addition and   *)
(* subtraction are then plain + and -, while comparison, halving and the   *)
(* conversions to f32 are defined on the unsigned reading.                 *)
(***************************************************************************)
EXTENDS Integers, Sequences, FiniteSets, TLC

VARIABLES
    opt,        \* the WinOpt builder value
    lastCall,   \* name of the last library call made on the builder
    pc,         \* position of the caller inside the running operation
    run,        \* which operation is running: "none", "place", "api"
    result,     \* outcome of the operation: "none", "ok", "err", "panic"
    error,      \* the WindowManagerError returned when result = "err"
    execute,    \* place(): the local `execute`
    checks,     \* build profile: TRUE = overflow checks (debug), FALSE = wrapping (release)
    wm,         \* the WindowManager session (work_width, work_height)
    loc,        \* place(): locals win, borders, geometry, gravity, sw, sh, x, y
    wire,       \* events put on the connection, in order, each with its flush
    calls,      \* log of send_event invocations and their outcome
    mr,         \* log of move_resize_win invocations (arguments)
    srv,        \* what the X server answered to connect(): None before it
    xdata,      \* the window data the X server held for the running call
    out,        \* the rows printed on stdout
    ret         \* the value returned by the session call: None, or Some(r)

vars == <<opt, lastCall, pc, run, result, error, execute, checks, wm, loc, wire, calls, mr,
          srv, xdata, out, ret>>

-----------------------------------------------------------------------------
(* Option<T>: None is the empty tuple, Some(v) the one-element tuple.      *)

None == <<>>
Some(v) == <<v>>
is_some(o) == Len(o) = 1
is_none(o) == Len(o) = 0
unwrap(o) == o[1]
unwrap_or(o, d) == IF is_some(o) THEN o[1] ELSE d

-----------------------------------------------------------------------------
(* u32 arithmetic on signed residues                                        *)

ULt(a, b) == IF (a >= 0) = (b >= 0) THEN a < b ELSE a >= 0
UGe(a, b) == ~ULt(a, b)
USubOverflows(a, b) == ULt(a, b)
UAddOverflows(a, b) ==
    IF a >= 0 /\ b >= 0 THEN FALSE
    ELSE IF a < 0 /\ b < 0 THEN TRUE
    ELSE a + b >= 0
UDiv2(a) == IF a >= 0 THEN a \div 2 ELSE 2147483647 + ((a \div 2) + 1)

RECURSIVE BitOr(_, _)
BitOr(a, b) ==
    IF a = 0 THEN b
    ELSE IF b = 0 THEN a
    ELSE IF a = -1 \/ b = -1 THEN -1
    ELSE (IF a % 2 = 1 \/ b % 2 = 1 THEN 1 ELSE 0) + 2 * BitOr(a \div 2, b \div 2)

Bit(a, i) == (a \div (2^i)) % 2

BitLen(i) == CHOOSE k \in 0..30 : i < 2^k /\ (k = 0 \/ 2^(k-1) <= i)

-----------------------------------------------------------------------------
(* model.rs                                                                 *)

WinShape == {"Grow", "Max", "Halfw", "Halfh", "Small", "Medium", "Large",
             "Shrink", "Square", "UnMax"}

WinPosition == {"Center", "Left", "Right", "Top", "Bottom", "TopLeft",
                "TopRight", "BottomLeft", "BottomRight", "LeftCenter",
                "RightCenter", "TopCenter", "BottomCenter"}

\* the conversion mapping every gravity to 0
WinGravity_into_zero(g) == 0

\* impl From<WinGravity> for u32
WinGravity_into(g) == IF g = "Center" THEN 5 ELSE 0

-----------------------------------------------------------------------------
(* window.rs: the WinOpt builder                                            *)

\* inputs of the builder calls (-1 is u32::MAX)
WinIds == {9}
Sizes == {<<300, 300>>, <<-1, 300>>}
Locations == {<<40, 60>>}

WinOpt_new(win) ==
    [win |-> win, w |-> None, h |-> None, x |-> None, y |-> None,
     shape |-> None, pos |-> None]

WinOpt_size(self, w, h) ==
    [self EXCEPT !.w = Some(w), !.h = Some(h), !.shape = None]

\* location() starting again from an empty builder for the same window
WinOpt_location_fresh(self, x, y) ==
    [WinOpt_new(self.win) EXCEPT !.x = Some(x), !.y = Some(y)]

WinOpt_location(self, x, y) ==
    [self EXCEPT !.x = Some(x), !.y = Some(y), !.pos = None]

\* shape() without the guard on w and h
WinOpt_shape_always(self, shape) == [self EXCEPT !.shape = Some(shape)]

WinOpt_shape(self, shape) ==
    IF is_none(self.w) /\ is_none(self.h)
    THEN [self EXCEPT !.shape = Some(shape)]
    ELSE self

WinOpt_pos(self, pos) ==
    IF is_none(self.x) /\ is_none(self.y)
    THEN [self EXCEPT !.pos = Some(pos)]
    ELSE self

\* any() answering true for every builder
any_always(self) == TRUE

\* any() with the check of `pos` left out
any_without_pos(self) ==
    \/ is_some(self.w)
    \/ is_some(self.h)
    \/ is_some(self.x)
    \/ is_some(self.y)
    \/ is_some(self.shape)

any(self) ==
    \/ is_some(self.w)
    \/ is_some(self.h)
    \/ is_some(self.x)
    \/ is_some(self.y)
    \/ is_some(self.shape)
    \/ is_some(self.pos)

-----------------------------------------------------------------------------
(* wm.rs: atoms, client messages, send_event                                *)

\* atom_manager!: the server interns each name to a distinct identifier
atoms ==
    [NET_MOVERESIZE_WINDOW |-> 301, NET_WM_STATE |-> 302,
     NET_WM_STATE_MAXIMIZED_HORZ |-> 303, NET_WM_STATE_MAXIMIZED_VERT |-> 304]

MOVE_RESIZE_WINDOW_X == 2^8
MOVE_RESIZE_WINDOW_Y == 2^9
MOVE_RESIZE_WINDOW_WIDTH == 2^10
MOVE_RESIZE_WINDOW_HEIGHT == 2^11

WINDOW_STATE_ACTION_REMOVE == 0
WINDOW_STATE_ACTION_ADD == 1

ClientMessageEvent_new(format, window, type, data) ==
    [format |-> format, window |-> window, type |-> type, data |-> data]

\* EventMask::SUBSTRUCTURE_REDIRECT | EventMask::SUBSTRUCTURE_NOTIFY
EventMask == {"SUBSTRUCTURE_REDIRECT", "SUBSTRUCTURE_NOTIFY"}

\* where a transport failure can strike inside one send_event
SendFailures == {"none", "send1", "flush1", "send2", "flush2"}

\* one conn.send_event(false, root, mask, &msg)?.check()? followed by conn.flush()?
Sent(root, msg, flushed) ==
    [dst |-> root, mask |-> EventMask, msg |-> msg, flushed |-> flushed]

\* send_event without the redelivery of move/resize messages
send_event_once(root, msg, fail) ==
    IF fail = "send1" THEN [out |-> <<>>, ok |-> FALSE]
    ELSE IF fail = "flush1" THEN [out |-> <<Sent(root, msg, FALSE)>>, ok |-> FALSE]
    ELSE [out |-> <<Sent(root, msg, TRUE)>>, ok |-> TRUE]

\* send_event going on to the redelivery after the first flush has failed
send_event_retry(root, msg, fail) ==
    IF fail = "send1" THEN [out |-> <<>>, ok |-> FALSE]
    ELSE IF msg.type = atoms.NET_MOVERESIZE_WINDOW
    THEN IF fail = "flush1"
         THEN [out |-> <<Sent(root, msg, FALSE), Sent(root, msg, TRUE)>>, ok |-> TRUE]
         ELSE IF fail = "send2"
         THEN [out |-> <<Sent(root, msg, TRUE)>>, ok |-> FALSE]
         ELSE IF fail = "flush2"
         THEN [out |-> <<Sent(root, msg, TRUE), Sent(root, msg, FALSE)>>, ok |-> FALSE]
         ELSE [out |-> <<Sent(root, msg, TRUE), Sent(root, msg, TRUE)>>, ok |-> TRUE]
    ELSE IF fail = "flush1" THEN [out |-> <<Sent(root, msg, FALSE)>>, ok |-> FALSE]
    ELSE [out |-> <<Sent(root, msg, TRUE)>>, ok |-> TRUE]

\* WindowManager::send_event: the events it puts on the wire and its result
send_event(root, msg, fail) ==
    IF fail = "send1" THEN [out |-> <<>>, ok |-> FALSE]
    ELSE IF fail = "flush1" THEN [out |-> <<Sent(root, msg, FALSE)>>, ok |-> FALSE]
    ELSE IF msg.type = atoms.NET_MOVERESIZE_WINDOW
    THEN IF fail = "send2"
         THEN [out |-> <<Sent(root, msg, TRUE)>>, ok |-> FALSE]
         ELSE IF fail = "flush2"
         THEN [out |-> <<Sent(root, msg, TRUE), Sent(root, msg, FALSE)>>, ok |-> FALSE]
         ELSE [out |-> <<Sent(root, msg, TRUE), Sent(root, msg, TRUE)>>, ok |-> TRUE]
    ELSE [out |-> <<Sent(root, msg, TRUE)>>, ok |-> TRUE]

\* the message built by WindowManager::maximize_win
maximize_msg(win) ==
    ClientMessageEvent_new(32, win, atoms.NET_WM_STATE,
        <<WINDOW_STATE_ACTION_ADD, atoms.NET_WM_STATE_MAXIMIZED_HORZ,
          atoms.NET_WM_STATE_MAXIMIZED_VERT, 0, 0>>)

\* unmaximize_win sending the action of maximize_win
unmaximize_msg_add(win) ==
    ClientMessageEvent_new(32, win, atoms.NET_WM_STATE,
        <<WINDOW_STATE_ACTION_ADD, atoms.NET_WM_STATE_MAXIMIZED_HORZ,
          atoms.NET_WM_STATE_MAXIMIZED_VERT, 0, 0>>)

\* the message built by WindowManager::unmaximize_win
unmaximize_msg(win) ==
    ClientMessageEvent_new(32, win, atoms.NET_WM_STATE,
        <<WINDOW_STATE_ACTION_REMOVE, atoms.NET_WM_STATE_MAXIMIZED_HORZ,
          atoms.NET_WM_STATE_MAXIMIZED_VERT, 0, 0>>)

\* move_resize_win flagging y with the bit of x
move_resize_flags_xy(gravity, x, y, w, h) ==
    LET f0 == unwrap_or(gravity, 0)
        f1 == IF is_some(x) THEN BitOr(f0, MOVE_RESIZE_WINDOW_X) ELSE f0
        f2 == IF is_some(y) THEN BitOr(f1, MOVE_RESIZE_WINDOW_X) ELSE f1
        f3 == IF is_some(w) THEN BitOr(f2, MOVE_RESIZE_WINDOW_WIDTH) ELSE f2
        f4 == IF is_some(h) THEN BitOr(f3, MOVE_RESIZE_WINDOW_HEIGHT) ELSE f3
    IN f4

\* the flags word of WindowManager::move_resize_win
move_resize_flags(gravity, x, y, w, h) ==
    LET f0 == unwrap_or(gravity, 0)
        f1 == IF is_some(x) THEN BitOr(f0, MOVE_RESIZE_WINDOW_X) ELSE f0
        f2 == IF is_some(y) THEN BitOr(f1, MOVE_RESIZE_WINDOW_Y) ELSE f1
        f3 == IF is_some(w) THEN BitOr(f2, MOVE_RESIZE_WINDOW_WIDTH) ELSE f2
        f4 == IF is_some(h) THEN BitOr(f3, MOVE_RESIZE_WINDOW_HEIGHT) ELSE f3
    IN f4

\* the message built by WindowManager::move_resize_win
move_resize_msg(win, gravity, x, y, w, h) ==
    ClientMessageEvent_new(32, win, atoms.NET_MOVERESIZE_WINDOW,
        <<move_resize_flags(gravity, x, y, w, h),
          unwrap_or(x, 0), unwrap_or(y, 0), unwrap_or(w, 0), unwrap_or(h, 0)>>)

-----------------------------------------------------------------------------
(* f32 arithmetic of shape_win.  A u32 below 2^24 converts to f32 exactly;  *)
(* a u32 of 2^32 - d with d <= 128 converts to 2^32.  The operators are     *)
(* defined on these two ranges only (TLC stops on any other argument).      *)

F32Exact(n) == n >= 0 /\ n <= 51199
F32Top(n) == n < 0 /\ n >= -128

\* (i + fr / 2^22) rounded to the nearest f32 (ties to even), then `as u32`
RoundTrunc(i, fr) ==
    IF BitLen(i) >= 3 /\ fr >= 4194304 - 2^(BitLen(i) - 3) THEN i + 1 ELSE i

\* Grow rounding the scaled extent up instead of truncating it
GrowScale_ceil(n) ==
    CASE F32Exact(n) -> (n * 101 + 99) \div 100
      [] F32Top(n) -> -1

\* (n as f32 * 1.01) as u32 ; 1.01f32 = 1 + 41943 / 2^22 ; the cast saturates
GrowScale(n) ==
    CASE F32Exact(n) -> RoundTrunc(n + (n * 41943) \div 4194304, (n * 41943) % 4194304)
      [] F32Top(n) -> -1

\* Shrink without the floor of 100.0
ShrinkScale_nofloor(n) ==
    CASE F32Exact(n) ->
           LET q == (n * 41943) \div 4194304
               r == (n * 41943) % 4194304
           IN IF r = 0 THEN n - q ELSE RoundTrunc(n - q - 1, 4194304 - r)
      [] F32Top(n) -> -42949632

\* { let mut w = n as f32 * 0.99; if w < 100.0 { w = 100.0 }; w as u32 }
\* 0.99f32 = 1 - 41943 / 2^22 ; 2^32 * 0.99f32 = 4252017664
ShrinkScale(n) ==
    CASE F32Exact(n) ->
           LET q == (n * 41943) \div 4194304
               r == (n * 41943) % 4194304
               t == IF r = 0 THEN n - q ELSE RoundTrunc(n - q - 1, 4194304 - r)
           IN IF t < 100 THEN 100 ELSE t
      [] F32Top(n) -> -42949632

\* Medium scaling the short side by 0.5 instead of 0.75
MediumShort_half(f) ==
    CASE F32Exact(f) -> f \div 2
      [] F32Top(f) -> -2147483647 - 1

\* (f as f32 * 0.75) as u32 ; 2^32 * 0.75 = 3221225472
MediumShort(f) ==
    CASE F32Exact(f) -> (3 * f) \div 4
      [] F32Top(f) -> -1073741824

\* Medium taking 4/3 of the whole extent for the long side
MediumLong_full(f) ==
    CASE F32Exact(f) -> (4 * f) \div 3
      [] F32Top(f) -> -1

\* ((f as f32 * 0.75) * 4.0 / 3.0) as u32 : 3f/4, 3f and f are all exact
MediumLong(f) ==
    CASE F32Exact(f) -> f
      [] F32Top(f) -> -1

\* (f as f32 * 4.0 / 3.0) as u32 : the quotient keeps a fraction bit, so the
\* rounding never reaches the next integer
LargeLong(f) ==
    CASE F32Exact(f) -> (4 * f) \div 3
      [] F32Top(f) -> -1

-----------------------------------------------------------------------------
(* window.rs: shape_win and move_win                                        *)

\* half of the border-excluded extent instead of half the extent less the border
half_extent_inner(W, b) == UDiv2(W - b)

\* `wmcli.work_width / 2 - bw`: "total half width - border"
half_extent(W, b) == UDiv2(W) - b

\* shape_win, the arm `_`: the sizes after unmaximize_win; ovf tells whether a
\* u32 operation on the path overflows
shape_calc(W, H, w, h, bw, bh, shape) ==
    LET fw == W - bw
        fh == H - bh
        hw == half_extent(W, bw)
        hh == half_extent(H, bh)
        pre == \/ USubOverflows(W, bw) \/ USubOverflows(H, bh)
               \/ USubOverflows(UDiv2(W), bw) \/ USubOverflows(UDiv2(H), bh)
    IN CASE shape = "Grow" ->
              LET gw == GrowScale(w - bw) + bw
                  gh == GrowScale(h - bh) + bh
              IN [ovf |-> \/ pre
                          \/ USubOverflows(w, bw) \/ UAddOverflows(GrowScale(w - bw), bw)
                          \/ USubOverflows(h, bh) \/ UAddOverflows(GrowScale(h - bh), bh),
                  w |-> Some(IF UGe(gw, fw) THEN fw ELSE gw),
                  h |-> Some(IF UGe(gh, fh) THEN fh ELSE gh)]
         [] shape = "Halfw" -> [ovf |-> pre, w |-> Some(hw), h |-> Some(fh)]
         [] shape = "Halfh" -> [ovf |-> pre, w |-> Some(fw), h |-> Some(hh)]
         [] shape = "Small" -> [ovf |-> pre, w |-> Some(hw), h |-> Some(hh)]
         [] shape = "Medium" ->
              IF ULt(H, W)
              THEN [ovf |-> pre, w |-> Some(MediumLong(fh)), h |-> Some(MediumShort(fh))]
              ELSE [ovf |-> pre, w |-> Some(MediumShort(fw)), h |-> Some(MediumLong(fw))]
         [] shape = "Large" ->
              IF ULt(H, W)
              THEN [ovf |-> pre, w |-> Some(LargeLong(fh)), h |-> Some(fh)]
              ELSE [ovf |-> pre, w |-> Some(fw), h |-> Some(LargeLong(fw))]
         [] shape = "Shrink" ->
              [ovf |-> \/ pre
                       \/ USubOverflows(w, bw) \/ UAddOverflows(ShrinkScale(w - bw), bw)
                       \/ USubOverflows(h, bh) \/ UAddOverflows(ShrinkScale(h - bh), bh),
               w |-> Some(ShrinkScale(w - bw) + bw),
               h |-> Some(ShrinkScale(h - bh) + bh)]
         [] OTHER -> [ovf |-> pre, w |-> None, h |-> None]

\* shape_win: the state message it sends first, then (gravity, w, h)
shape_win(W, H, win, w, h, bw, bh, shape) ==
    IF shape = "Max"
    THEN [msg |-> maximize_msg(win), ovf |-> FALSE,
          gravity |-> None, w |-> None, h |-> None]
    ELSE IF shape = "UnMax"
    THEN [msg |-> unmaximize_msg(win), ovf |-> FALSE,
          gravity |-> None, w |-> None, h |-> None]
    ELSE LET c == shape_calc(W, H, w, h, bw, bh, shape)
         IN [msg |-> unmaximize_msg(win), ovf |-> c.ovf,
             gravity |-> Some(WinGravity_into("Center")), w |-> c.w, h |-> c.h]

\* move_win defaulting the axis a position leaves alone to 0
move_xy_zero(pos, cx, cy, lx, ty) ==
    CASE pos = "Center" -> <<Some(cx), Some(cy)>>
      [] pos = "Left" -> <<Some(0), Some(0)>>
      [] pos = "Right" -> <<Some(lx), Some(0)>>
      [] pos = "Top" -> <<Some(0), Some(0)>>
      [] pos = "Bottom" -> <<Some(0), Some(ty)>>
      [] pos = "TopLeft" -> <<Some(0), Some(0)>>
      [] pos = "TopRight" -> <<Some(lx), Some(0)>>
      [] pos = "BottomLeft" -> <<Some(0), Some(ty)>>
      [] pos = "BottomRight" -> <<Some(lx), Some(ty)>>
      [] pos = "LeftCenter" -> <<Some(0), Some(cy)>>
      [] pos = "RightCenter" -> <<Some(lx), Some(cy)>>
      [] pos = "TopCenter" -> <<Some(cx), Some(0)>>
      [] pos = "BottomCenter" -> <<Some(cx), Some(ty)>>

\* move_win: "Interpret the position as x, y cordinates"
move_xy(pos, cx, cy, lx, ty) ==
    CASE pos = "Center" -> <<Some(cx), Some(cy)>>
      [] pos = "Left" -> <<Some(0), None>>
      [] pos = "Right" -> <<Some(lx), None>>
      [] pos = "Top" -> <<None, Some(0)>>
      [] pos = "Bottom" -> <<None, Some(ty)>>
      [] pos = "TopLeft" -> <<Some(0), Some(0)>>
      [] pos = "TopRight" -> <<Some(lx), Some(0)>>
      [] pos = "BottomLeft" -> <<Some(0), Some(ty)>>
      [] pos = "BottomRight" -> <<Some(lx), Some(ty)>>
      [] pos = "LeftCenter" -> <<Some(0), Some(cy)>>
      [] pos = "RightCenter" -> <<Some(lx), Some(cy)>>
      [] pos = "TopCenter" -> <<Some(cx), Some(0)>>
      [] pos = "BottomCenter" -> <<Some(cx), Some(ty)>>

\* move_win: the state message it sends first, then the coordinates
\* move_win anchoring the right and bottom edge without the border
move_win_noborder(W, H, win, w, h, bw, bh, pos) ==
    LET cx == IF UGe(UDiv2(w + bw), UDiv2(W)) THEN 0 ELSE UDiv2(W) - UDiv2(w + bw)
        cy == IF UGe(UDiv2(h + bh), UDiv2(H)) THEN 0 ELSE UDiv2(H) - UDiv2(h + bh)
        lx == IF UGe(w, W) THEN 0 ELSE W - w
        ty == IF UGe(h, H) THEN 0 ELSE H - h
    IN [msg |-> unmaximize_msg(win), ovf |-> UAddOverflows(w, bw) \/ UAddOverflows(h, bh),
        x |-> move_xy(pos, cx, cy, lx, ty)[1], y |-> move_xy(pos, cx, cy, lx, ty)[2]]

\* move_win: the state message it sends first, then (x, y)
move_win(W, H, win, w, h, bw, bh, pos) ==
    LET cx == IF UGe(UDiv2(w + bw), UDiv2(W)) THEN 0 ELSE UDiv2(W) - UDiv2(w + bw)
        cy == IF UGe(UDiv2(h + bh), UDiv2(H)) THEN 0 ELSE UDiv2(H) - UDiv2(h + bh)
        lx == IF UGe(w + bw, W) THEN 0 ELSE W - w - bw
        ty == IF UGe(h + bh, H) THEN 0 ELSE H - h - bh
    IN [msg |-> unmaximize_msg(win), ovf |-> UAddOverflows(w, bw) \/ UAddOverflows(h, bh),
        x |-> move_xy(pos, cx, cy, lx, ty)[1], y |-> move_xy(pos, cx, cy, lx, ty)[2]]

-----------------------------------------------------------------------------
(* wm.rs: connect and the property reads of place()                         *)

\* what the X server answers to connect(): the transport, the atom cookie,
\* the screen <<root, width, height>> and two root-window properties
ServerEnv(x11, atomsOk, supported, workarea) ==
    [x11 |-> x11, atomsOk |-> atomsOk, screen |-> <<1, 1920, 1080>>,
     supported |-> supported, workarea |-> workarea]

WorkAreaValues ==
    {<<0, 0, 1000, 800>>, <<0, 0, 600, 800>>, <<0, 0, 30, 40>>}

ConnectEnvs ==
    {ServerEnv(TRUE, TRUE, Some(<<301, 302>>), Some(wa)) : wa \in WorkAreaValues}
    \cup {ServerEnv(FALSE, TRUE, Some(<<301, 302>>), Some(<<0, 0, 1000, 800>>)),
          ServerEnv(TRUE, FALSE, Some(<<301, 302>>), Some(<<0, 0, 1000, 800>>)),
          ServerEnv(TRUE, TRUE, None, Some(<<0, 0, 1000, 800>>)),
          ServerEnv(TRUE, TRUE, Some(<<301, 302>>), None),
          ServerEnv(TRUE, TRUE, Some(<<301, 302>>), Some(<<0, 0, 1000>>))}

\* further answers met by a caller of connect(): a work area wider than 16
\* bits, x/y offsets with a second desktop's record, and both root properties
\* absent
WideConnectEnvs ==
    {ServerEnv(TRUE, TRUE, Some(<<301, 302>>), Some(<<0, 0, 70000, 65536>>)),
     ServerEnv(TRUE, TRUE, Some(<<301, 302>>), Some(<<5, 7, 640, 480, 0, 0, 1000, 800>>)),
     ServerEnv(TRUE, TRUE, None, None)}

NoSession ==
    [root |-> 0, width |-> 0, height |-> 0, work_width |-> 0, work_height |-> 0,
     supported |-> {}]

PropertyNotFound(name) == <<"PropertyNotFound", name>>
ConnectError == <<"ConnectError", "">>
ReplyError == <<"ReplyError", "">>
ConnectionError == <<"ConnectionError", "">>
NoError == <<"", "">>

\* WindowManager::workarea
workarea(prop) ==
    IF is_none(prop) THEN [ok |-> FALSE, err |-> PropertyNotFound("_NET_WORKAREA")]
    ELSE LET v == unwrap(prop) IN
         IF Len(v) < 1 THEN [ok |-> FALSE, err |-> PropertyNotFound("_NET_WORKAREA x")]
         ELSE IF Len(v) < 2 THEN [ok |-> FALSE, err |-> PropertyNotFound("_NET_WORKAREA y")]
         ELSE IF Len(v) < 3 THEN [ok |-> FALSE, err |-> PropertyNotFound("_NET_WORKAREA width")]
         ELSE IF Len(v) < 4 THEN [ok |-> FALSE, err |-> PropertyNotFound("_NET_WORKAREA height")]
         ELSE [ok |-> TRUE, err |-> NoError, w |-> v[3] % 65536, h |-> v[4] % 65536]

\* connect handing out a session without work area when the read of it fails
connect_degraded(env) ==
    IF ~env.x11 THEN [ok |-> FALSE, err |-> ConnectError]
    ELSE IF ~env.atomsOk THEN [ok |-> FALSE, err |-> ReplyError]
    ELSE IF is_none(env.supported)
    THEN [ok |-> FALSE, err |-> PropertyNotFound("_NET_SUPPORTED")]
    ELSE LET wa == workarea(env.workarea) IN
         [ok |-> TRUE, err |-> NoError,
          wm |-> [root |-> env.screen[1], width |-> env.screen[2],
                  height |-> env.screen[3],
                  work_width |-> IF wa.ok THEN wa.w ELSE 0,
                  work_height |-> IF wa.ok THEN wa.h ELSE 0,
                  supported |-> {unwrap(env.supported)[i] :
                                   i \in 1..Len(unwrap(env.supported))}]]

\* WindowManager::connect with init_caching
connect(env) ==
    IF ~env.x11 THEN [ok |-> FALSE, err |-> ConnectError]
    ELSE IF ~env.atomsOk THEN [ok |-> FALSE, err |-> ReplyError]
    ELSE IF is_none(env.supported)
    THEN [ok |-> FALSE, err |-> PropertyNotFound("_NET_SUPPORTED")]
    ELSE LET wa == workarea(env.workarea) IN
         IF ~wa.ok THEN [ok |-> FALSE, err |-> wa.err]
         ELSE [ok |-> TRUE, err |-> NoError,
               wm |-> [root |-> env.screen[1], width |-> env.screen[2],
                       height |-> env.screen[3],
                       work_width |-> wa.w, work_height |-> wa.h,
                       supported |-> {unwrap(env.supported)[i] :
                                        i \in 1..Len(unwrap(env.supported))}]]

\* _NET_ACTIVE_WINDOW on the root window: absent, or the active window id
ActiveProps == {None, Some(<<7>>)}

\* WindowManager::active_win
active_win(prop) ==
    IF is_none(prop) \/ Len(unwrap(prop)) = 0
    THEN [ok |-> FALSE, err |-> PropertyNotFound("_NET_ACTIVE_WINDOW")]
    ELSE [ok |-> TRUE, err |-> NoError, win |-> unwrap(prop)[1]]

\* _NET_FRAME_EXTENTS of the window: absent, or left, right, top, bottom
FrameExtentProps ==
    {None, Some(<<0, 0, 0, 0>>), Some(<<10, 10, 10, 10>>), Some(<<20, 20, 20, 20>>)}

\* WindowManager::win_borders
win_borders(prop) ==
    IF is_none(prop) THEN [ok |-> FALSE, err |-> PropertyNotFound("_NET_FRAME_EXTENTS")]
    ELSE LET v == unwrap(prop) IN
         IF Len(v) < 1 THEN [ok |-> FALSE, err |-> PropertyNotFound("_NET_FRAME_EXTENTS left")]
         ELSE IF Len(v) < 2 THEN [ok |-> FALSE, err |-> PropertyNotFound("_NET_FRAME_EXTENTS right")]
         ELSE IF Len(v) < 3 THEN [ok |-> FALSE, err |-> PropertyNotFound("_NET_FRAME_EXTENTS top")]
         ELSE IF Len(v) < 4 THEN [ok |-> FALSE, err |-> PropertyNotFound("_NET_FRAME_EXTENTS bottom")]
         ELSE [ok |-> TRUE, err |-> NoError, l |-> v[1], r |-> v[2], t |-> v[3], b |-> v[4]]

\* the reply to get_geometry: an error, or the window's width and height (u16)
GeometryReplies ==
    {None, Some(<<500, 400>>), Some(<<120, 120>>), Some(<<70, 50>>), Some(<<10, 10>>)}

\* WindowManager::win_geometry
win_geometry(reply) ==
    IF is_none(reply) THEN [ok |-> FALSE, err |-> ReplyError]
    ELSE [ok |-> TRUE, err |-> NoError, w |-> unwrap(reply)[1], h |-> unwrap(reply)[2]]

-----------------------------------------------------------------------------
(* The state machine: a caller builds a WinOpt and runs place(), or opens a *)
(* session and calls move_resize_win directly.                              *)

NoLocals ==
    [win |-> 0, bl |-> 0, br |-> 0, bt |-> 0, bb |-> 0, w |-> 0, h |-> 0,
     gravity |-> None, sw |-> None, sh |-> None, x |-> None, y |-> None]

Init ==
    /\ opt = WinOpt_new(None)
    /\ lastCall = "none"
    /\ pc = "start"
    /\ run = "none"
    /\ result = "none"
    /\ error = NoError
    /\ execute = FALSE
    /\ checks \in BOOLEAN
    /\ wm = NoSession
    /\ loc = NoLocals
    /\ wire = <<>>
    /\ calls = <<>>
    /\ mr = <<>>
    /\ srv = None
    /\ xdata = None
    /\ out = <<>>
    /\ ret = None

\* the operation returns (or panics)
Finish(res, err) ==
    /\ pc' = "done"
    /\ result' = res
    /\ error' = err

\* --- the builder -----------------------------------------------------------

New ==
    /\ pc = "start"
    /\ \E win \in {None} \cup {Some(i) : i \in WinIds} : opt' = WinOpt_new(win)
    /\ lastCall' = "new"
    /\ pc' = "build"
    /\ UNCHANGED <<run, result, error, execute, checks, wm, loc, wire, calls, mr, srv, xdata, out, ret>>

Size ==
    /\ pc = "build"
    /\ \E s \in Sizes : opt' = WinOpt_size(opt, s[1], s[2])
    /\ lastCall' = "size"
    /\ UNCHANGED <<pc, run, result, error, execute, checks, wm, loc, wire, calls, mr, srv, xdata, out, ret>>

Location ==
    /\ pc = "build"
    /\ \E l \in Locations : opt' = WinOpt_location(opt, l[1], l[2])
    /\ lastCall' = "location"
    /\ UNCHANGED <<pc, run, result, error, execute, checks, wm, loc, wire, calls, mr, srv, xdata, out, ret>>

Shape ==
    /\ pc = "build"
    /\ \E shape \in WinShape : opt' = WinOpt_shape(opt, shape)
    /\ lastCall' = "shape"
    /\ UNCHANGED <<pc, run, result, error, execute, checks, wm, loc, wire, calls, mr, srv, xdata, out, ret>>

Pos ==
    /\ pc = "build"
    /\ \E pos \in WinPosition : opt' = WinOpt_pos(opt, pos)
    /\ lastCall' = "pos"
    /\ UNCHANGED <<pc, run, result, error, execute, checks, wm, loc, wire, calls, mr, srv, xdata, out, ret>>

\* --- place() ---------------------------------------------------------------

\* let execute = self.any(); let wmcli = WindowManager::connect()?;
PlaceConnect ==
    /\ pc = "build"
    /\ run' = "place"
    /\ lastCall' = "place"
    /\ execute' = any(opt)
    /\ \E env \in ConnectEnvs :
         LET c == connect(env) IN
         /\ srv' = Some(env)
         /\ IF c.ok
            THEN /\ wm' = c.wm
                 /\ pc' = "active"
                 /\ UNCHANGED <<result, error>>
            ELSE /\ Finish("err", c.err)
                 /\ UNCHANGED wm
    /\ UNCHANGED <<opt, checks, loc, wire, calls, mr, xdata, out, ret>>

\* let win = self.win.unwrap_or(wmcli.active_win()?);
PlaceActiveWin ==
    /\ pc = "active"
    /\ \E prop \in ActiveProps :
         LET a == active_win(prop) IN
         IF a.ok
         THEN /\ loc' = [loc EXCEPT !.win = unwrap_or(opt.win, a.win)]
              /\ pc' = "borders"
              /\ UNCHANGED <<result, error>>
         ELSE /\ Finish("err", a.err)
              /\ UNCHANGED loc
    /\ UNCHANGED <<opt, lastCall, run, execute, checks, wm, wire, calls, mr, srv, xdata, out, ret>>

\* let (bl, br, bt, bb) = wmcli.win_borders(win)?;
PlaceBorders ==
    /\ pc = "borders"
    /\ \E prop \in FrameExtentProps :
         LET b == win_borders(prop) IN
         IF b.ok
         THEN /\ loc' = [loc EXCEPT !.bl = b.l, !.br = b.r, !.bt = b.t, !.bb = b.b]
              /\ pc' = "geometry"
              /\ UNCHANGED <<result, error>>
         ELSE /\ Finish("err", b.err)
              /\ UNCHANGED loc
    /\ UNCHANGED <<opt, lastCall, run, execute, checks, wm, wire, calls, mr, srv, xdata, out, ret>>

\* let (_, _, w, h) = wmcli.win_geometry(win)?;
PlaceGeometry ==
    /\ pc = "geometry"
    /\ \E reply \in GeometryReplies :
         LET g == win_geometry(reply) IN
         IF g.ok
         THEN /\ loc' = [loc EXCEPT !.w = g.w, !.h = g.h]
              /\ pc' = "shape"
              /\ UNCHANGED <<result, error>>
         ELSE /\ Finish("err", g.err)
              /\ UNCHANGED loc
    /\ UNCHANGED <<opt, lastCall, run, execute, checks, wm, wire, calls, mr, srv, xdata, out, ret>>

\* the failures one send_event of msg can meet
FailuresOf(msg) ==
    IF msg.type = atoms.NET_MOVERESIZE_WINDOW
    THEN SendFailures
    ELSE {"none", "send1", "flush1"}

\* `bl + br` and `bt + bb`, evaluated as arguments of shape_win and move_win
BordersOverflow == UAddOverflows(loc.bl, loc.br) \/ UAddOverflows(loc.bt, loc.bb)

\* place() keeping the gravity of the shape whatever else is requested
place_gravity_keep(self, gravity) == gravity

\* "Don't use gravity if positioning is required"
place_gravity(self, gravity) ==
    IF is_some(self.pos) \/ is_some(self.x) \/ is_some(self.y) THEN None ELSE gravity

\* place(): "Shape the window as directed"
PlaceShape ==
    /\ pc = "shape"
    /\ IF is_some(opt.shape)
       THEN IF checks /\ BordersOverflow
            THEN /\ Finish("panic", NoError)
                 /\ UNCHANGED <<loc, wire, calls>>
            ELSE LET s == shape_win(wm.work_width, wm.work_height, loc.win, loc.w, loc.h,
                                    loc.bl + loc.br, loc.bt + loc.bb, unwrap(opt.shape))
                 IN \E fail \in FailuresOf(s.msg) :
                      LET r == send_event(wm.root, s.msg, fail) IN
                      /\ wire' = wire \o r.out
                      /\ calls' = Append(calls, [msg |-> s.msg, ok |-> r.ok])
                      /\ IF ~r.ok
                         THEN Finish("err", ConnectionError) /\ UNCHANGED loc
                         ELSE IF checks /\ s.ovf
                         THEN Finish("panic", NoError) /\ UNCHANGED loc
                         ELSE /\ loc' = [loc EXCEPT !.gravity = place_gravity(opt, s.gravity),
                                                    !.sw = s.w, !.sh = s.h]
                              /\ pc' = "move"
                              /\ UNCHANGED <<result, error>>
       ELSE /\ loc' = IF is_some(opt.w) /\ is_some(opt.h)
                      THEN [loc EXCEPT !.gravity = None, !.sw = Some(unwrap(opt.w)),
                                       !.sh = Some(unwrap(opt.h))]
                      ELSE [loc EXCEPT !.gravity = None, !.sw = None, !.sh = None]
            /\ pc' = "move"
            /\ UNCHANGED <<result, error, wire, calls>>
    /\ UNCHANGED <<opt, lastCall, run, execute, checks, wm, mr, srv, xdata, out, ret>>

\* place(): "Position the window if directed"
PlaceMove ==
    /\ pc = "move"
    /\ IF is_some(opt.pos)
       THEN IF checks /\ BordersOverflow
            THEN /\ Finish("panic", NoError)
                 /\ UNCHANGED <<loc, wire, calls>>
            ELSE LET m == move_win(wm.work_width, wm.work_height, loc.win,
                                   unwrap_or(loc.sw, loc.w), unwrap_or(loc.sh, loc.h),
                                   loc.bl + loc.br, loc.bt + loc.bb, unwrap(opt.pos))
                 IN \E fail \in FailuresOf(m.msg) :
                      LET r == send_event(wm.root, m.msg, fail) IN
                      /\ wire' = wire \o r.out
                      /\ calls' = Append(calls, [msg |-> m.msg, ok |-> r.ok])
                      /\ IF ~r.ok
                         THEN Finish("err", ConnectionError) /\ UNCHANGED loc
                         ELSE IF checks /\ m.ovf
                         THEN Finish("panic", NoError) /\ UNCHANGED loc
                         ELSE /\ loc' = [loc EXCEPT !.x = m.x, !.y = m.y]
                              /\ pc' = "dispatch"
                              /\ UNCHANGED <<result, error>>
       ELSE /\ loc' = IF is_some(opt.x) /\ is_some(opt.y)
                      THEN [loc EXCEPT !.x = opt.x, !.y = opt.y]
                      ELSE [loc EXCEPT !.x = None, !.y = None]
            /\ pc' = "dispatch"
            /\ UNCHANGED <<result, error, wire, calls>>
    /\ UNCHANGED <<opt, lastCall, run, execute, checks, wm, mr, srv, xdata, out, ret>>

\* WindowManager::move_resize_win: build the message, send_event it
move_resize_win(win, gravity, x, y, w, h) ==
    \E fail \in SendFailures :
      LET msg == move_resize_msg(win, gravity, x, y, w, h)
          r == send_event(wm.root, msg, fail)
      IN /\ mr' = Append(mr, [win |-> win, gravity |-> gravity,
                              x |-> x, y |-> y, w |-> w, h |-> h])
         /\ wire' = wire \o r.out
         /\ calls' = Append(calls, [msg |-> msg, ok |-> r.ok])
         /\ IF r.ok THEN Finish("ok", NoError) ELSE Finish("err", ConnectionError)

\* place(): "Execute if reason to"
PlaceDispatch ==
    /\ pc = "dispatch"
    /\ IF execute
       THEN move_resize_win(loc.win, loc.gravity, loc.x, loc.y, loc.sw, loc.sh)
       ELSE /\ Finish("ok", NoError)
            /\ UNCHANGED <<wire, calls, mr>>
    /\ UNCHANGED <<opt, lastCall, run, execute, checks, wm, loc, srv, xdata, out, ret>>

\* --- direct use of the session ---------------------------------------------

\* a caller opens a session: WindowManager::connect()
Connect ==
    /\ pc = "start"
    /\ run' = "api"
    /\ \E env \in ConnectEnvs \cup WideConnectEnvs :
         LET c == connect(env) IN
         /\ srv' = Some(env)
         /\ IF c.ok
            THEN /\ wm' = c.wm
                 /\ pc' = "session"
                 /\ UNCHANGED <<result, error>>
            ELSE /\ Finish("err", c.err)
                 /\ UNCHANGED wm
    /\ UNCHANGED <<opt, lastCall, execute, checks, loc, wire, calls, mr, xdata, out, ret>>

\* arguments a caller passes to move_resize_win
Gravities == {None, Some(0), Some(5), Some(255), Some(256), Some(1029)}
Coords == {None, Some(0), Some(40)}
Extents == {None, Some(300)}

\* a caller invokes wmcli.move_resize_win(win, gravity, x, y, w, h)
ApiMoveResizeWin ==
    /\ pc = "session"
    /\ \E win \in WinIds, gravity \in Gravities, x \in Coords, y \in Coords,
          w \in Extents, h \in Extents :
         move_resize_win(win, gravity, x, y, w, h)
    /\ UNCHANGED <<opt, lastCall, run, execute, checks, wm, loc, srv, xdata, out, ret>>

\* --- list() ----------------------------------------------------------------

\* the window ids the server enumerates: the request fails, or a list
WindowLists == {None, Some(<<>>), Some(<<11, 12>>)}

\* WindowManager::windows: the children of the root when `all`, else
\* _NET_CLIENT_LIST
windows(all, tree, clientList) ==
    IF all
    THEN IF is_none(tree) THEN [ok |-> FALSE, err |-> ReplyError]
         ELSE [ok |-> TRUE, err |-> NoError, wins |-> unwrap(tree)]
    ELSE IF is_none(clientList)
         THEN [ok |-> FALSE, err |-> PropertyNotFound("_NET_CLIENT_LIST")]
         ELSE [ok |-> TRUE, err |-> NoError, wins |-> unwrap(clientList)]

\* the outcome of each per-window read of print_win_details: None is Err(_)
WinReads(pid, desktop, typ, states, geometry, borders, class, name) ==
    [pid |-> pid, desktop |-> desktop, typ |-> typ, states |-> states,
     geometry |-> geometry, borders |-> borders, class |-> class, name |-> name]

ReadsOk ==
    WinReads(Some(4242), Some(0), Some("Normal"), Some("[]"), Some(<<10, 20, 500, 400>>),
             Some(<<1, 1, 20, 1>>), Some("xterm"), Some("shell"))
ReadsGeometryOnly ==
    WinReads(None, None, None, None, Some(<<10, 20, 500, 400>>), None, None, None)
ReadsNone == WinReads(None, None, None, None, None, None, None, None)

WinReadOutcomes == {ReadsOk, ReadsGeometryOnly, ReadsNone}

Header == [id |-> "ID"]

\* print_win_details: the row printed for win, or the error of win_geometry
print_win_details(win, d) ==
    IF is_none(d.geometry)
    THEN [ok |-> FALSE, err |-> ReplyError]
    ELSE [ok |-> TRUE, err |-> NoError,
          row |-> [id |-> win,
                   desktop |-> unwrap_or(d.desktop, -1),
                   pid |-> unwrap_or(d.pid, -1),
                   geometry |-> unwrap(d.geometry),
                   borders |-> unwrap_or(d.borders, <<0, 0, 0, 0>>),
                   typ |-> unwrap_or(d.typ, "Error"),
                   states |-> unwrap_or(d.states, "Err(..)"),
                   class |-> unwrap_or(d.class, ""),
                   name |-> unwrap_or(d.name, "")]]

\* for win in .. { print_win_details(&wmcli, win.id)?; }
RECURSIVE print_each(_, _, _)
print_each(wins, table, rows) ==
    IF wins = <<>> THEN [ok |-> TRUE, err |-> NoError, rows |-> rows]
    ELSE LET p == print_win_details(Head(wins), table[Head(wins)])
         IN IF ~p.ok THEN [ok |-> FALSE, err |-> p.err, rows |-> rows]
            ELSE print_each(Tail(wins), table, Append(rows, p.row))

\* list(all): connect, print the header, enumerate, print each window
list(env, all, tree, clientList, table) ==
    LET c == connect(env) IN
    IF ~c.ok THEN [ok |-> FALSE, err |-> c.err, rows |-> <<>>]
    ELSE LET e == windows(all, tree, clientList) IN
         IF ~e.ok THEN [ok |-> FALSE, err |-> e.err, rows |-> <<Header>>]
         ELSE print_each(e.wins, table, <<Header>>)

List ==
    /\ pc = "start"
    /\ run' = "list"
    /\ \E env \in ConnectEnvs, all \in BOOLEAN, tree \in WindowLists,
          clientList \in WindowLists, table \in [{11, 12} -> WinReadOutcomes] :
         LET r == list(env, all, tree, clientList, table) IN
         /\ srv' = Some(env)
         /\ xdata' = Some([all |-> all, tree |-> tree, clientList |-> clientList,
                           table |-> table])
         /\ wm' = IF connect(env).ok THEN connect(env).wm ELSE wm
         /\ out' = r.rows
         /\ IF r.ok THEN Finish("ok", NoError) ELSE Finish("err", r.err)
    /\ UNCHANGED <<opt, lastCall, execute, checks, loc, wire, calls, mr, ret>>

\* --- win_name() ------------------------------------------------------------

\* a get_property reply: the request fails (None), the property is absent
\* (type NONE), or it holds a byte string
PropReply(type, value) == [type |-> type, value |-> value]
NameReplies ==
    {None, Some(PropReply("NONE", <<>>)), Some(PropReply("UTF8_STRING", <<>>)),
     Some(PropReply("UTF8_STRING", <<65>>)), Some(PropReply("UTF8_STRING", <<66>>)),
     Some(PropReply("UTF8_STRING", <<255>>))}

\* str::from_utf8 on the byte strings above: a byte below 0x80 encodes the
\* character of that code, the byte 0xFF occurs in no UTF-8 sequence
from_utf8(bytes) ==
    IF \A i \in 1..Len(bytes) : bytes[i] < 128 THEN Some(bytes) ELSE None

\* the block win_name repeats for each property: the value it would return
name_in(reply) ==
    IF reply.type # "NONE" /\ is_some(from_utf8(reply.value))
                           /\ unwrap(from_utf8(reply.value)) # <<>>
    THEN Some(unwrap(from_utf8(reply.value)))
    ELSE None

\* win_name trying _NET_WM_NAME before _NET_WM_VISIBLE_NAME
win_name_plain_first(visible, name, legacy) ==
    IF is_none(name) THEN [ok |-> FALSE, err |-> ReplyError]
    ELSE IF is_some(name_in(unwrap(name)))
    THEN [ok |-> TRUE, err |-> NoError, value |-> unwrap(name_in(unwrap(name))),
          using |-> "_NET_WM_NAME"]
    ELSE IF is_none(visible) THEN [ok |-> FALSE, err |-> ReplyError]
    ELSE IF is_some(name_in(unwrap(visible)))
    THEN [ok |-> TRUE, err |-> NoError, value |-> unwrap(name_in(unwrap(visible))),
          using |-> "_NET_WM_VISIBLE_NAME"]
    ELSE IF is_none(legacy) THEN [ok |-> FALSE, err |-> ReplyError]
    ELSE IF is_some(name_in(unwrap(legacy)))
    THEN [ok |-> TRUE, err |-> NoError, value |-> unwrap(name_in(unwrap(legacy))),
          using |-> "WM_NAME"]
    ELSE [ok |-> FALSE, err |-> PropertyNotFound("_NET_WM_NAME | _WM_NAME")]

\* WindowManager::win_name; `using` is the property named by its debug! line
win_name(visible, name, legacy) ==
    IF is_none(visible) THEN [ok |-> FALSE, err |-> ReplyError]
    ELSE IF is_some(name_in(unwrap(visible)))
    THEN [ok |-> TRUE, err |-> NoError, value |-> unwrap(name_in(unwrap(visible))),
          using |-> "_NET_WM_VISIBLE_NAME"]
    ELSE IF is_none(name) THEN [ok |-> FALSE, err |-> ReplyError]
    ELSE IF is_some(name_in(unwrap(name)))
    THEN [ok |-> TRUE, err |-> NoError, value |-> unwrap(name_in(unwrap(name))),
          using |-> "_NET_WM_NAME"]
    ELSE IF is_none(legacy) THEN [ok |-> FALSE, err |-> ReplyError]
    ELSE IF is_some(name_in(unwrap(legacy)))
    THEN [ok |-> TRUE, err |-> NoError, value |-> unwrap(name_in(unwrap(legacy))),
          using |-> "WM_NAME"]
    ELSE [ok |-> FALSE, err |-> PropertyNotFound("_NET_WM_NAME | _WM_NAME")]

\* a caller invokes wmcli.win_name(win)
ApiWinName ==
    /\ pc = "session"
    /\ \E visible \in NameReplies, name \in NameReplies, legacy \in NameReplies :
         LET r == win_name(visible, name, legacy) IN
         /\ xdata' = Some([visible |-> visible, name |-> name, legacy |-> legacy])
         /\ ret' = Some(r)
         /\ IF r.ok THEN Finish("ok", NoError) ELSE Finish("err", r.err)
    /\ UNCHANGED <<opt, lastCall, run, execute, checks, wm, loc, wire, calls, mr, srv, out>>

\* --- win_type() and win_state() --------------------------------------------

\* the arms of WinType::from in match order: the interned atom of
\* _NET_WM_WINDOW_TYPE_<X> and the variant it selects
WinTypeArms ==
    << <<311, "Combo">>, <<312, "Desktop">>, <<313, "Dialog">>, <<314, "DND">>,
       <<315, "Dock">>, <<316, "DropDownMenu">>, <<317, "Menu">>, <<318, "Normal">>,
       <<319, "Notification">>, <<320, "PopupMenu">>, <<321, "Splash">>,
       <<322, "Toolbar">>, <<323, "ToolTip">>, <<324, "Utility">> >>

\* the arms of WinState::from in match order
WinStateArms ==
    << <<331, "Above">>, <<332, "Below">>, <<333, "DemandsAttention">>,
       <<334, "Focused">>, <<335, "Fullscreen">>, <<336, "Hidden">>,
       <<atoms.NET_WM_STATE_MAXIMIZED_VERT, "MaxVert">>,
       <<atoms.NET_WM_STATE_MAXIMIZED_HORZ, "MaxHorz">>,
       <<337, "Modal">>, <<338, "Shaded">>, <<339, "SkipPager">>,
       <<340, "SkipTaskbar">> >>

\* _NET_WM_STATE_STICKY: cached by the session, without an arm in WinState::from
NET_WM_STATE_STICKY == 341

\* match val { _ if val == atom => Variant, .., _ => Other(val) }
RECURSIVE match_atom(_, _)
match_atom(arms, val) ==
    IF arms = <<>> THEN <<"Other", val>>
    ELSE IF val = Head(arms)[1] THEN <<Head(arms)[2]>>
    ELSE match_atom(Tail(arms), val)

\* WinType::from dropping the raw value of an unknown type
WinType_from_blank(val) ==
    IF \E i \in 1..Len(WinTypeArms) : val = WinTypeArms[i][1]
    THEN match_atom(WinTypeArms, val)
    ELSE <<"Other", 0>>

WinType_from(val) == match_atom(WinTypeArms, val)
WinState_from(val) == match_atom(WinStateArms, val)

\* a get_property reply read with value32(): the request fails (None), the
\* property has no 32-bit value (Some(None)), or it holds a list of u32
AtomReplies ==
    {None, Some(None), Some(Some(<<>>))}
    \cup {Some(Some(<<v>>)) : v \in {0, 5, 310, 311, 314, 318, 324, 325, 331,
                                      atoms.NET_WM_STATE_MAXIMIZED_HORZ,
                                      atoms.NET_WM_STATE_MAXIMIZED_VERT, 340,
                                      NET_WM_STATE_STICKY, 342, -1}}
    \cup {Some(Some(<<318, 999>>)), Some(Some(<<331, 999>>)),
          Some(Some(<<999, 336>>)), Some(Some(<<NET_WM_STATE_STICKY, 338>>))}

\* WindowManager::win_type: the type decoded from the first value
win_type(reply) ==
    IF is_none(reply) THEN [ok |-> FALSE, err |-> ReplyError]
    ELSE IF is_none(unwrap(reply)) \/ unwrap(unwrap(reply)) = <<>>
    THEN [ok |-> FALSE, err |-> PropertyNotFound("_NET_WM_WINDOW_TYPE")]
    ELSE [ok |-> TRUE, err |-> NoError, value |-> WinType_from(unwrap(unwrap(reply))[1])]

\* WindowManager::win_state: every value decoded, in order
win_state(reply) ==
    IF is_none(reply) THEN [ok |-> FALSE, err |-> ReplyError]
    ELSE IF is_none(unwrap(reply))
    THEN [ok |-> FALSE, err |-> PropertyNotFound("_NET_WM_STATE")]
    ELSE [ok |-> TRUE, err |-> NoError,
          value |-> [i \in 1..Len(unwrap(unwrap(reply))) |->
                       WinState_from(unwrap(unwrap(reply))[i])]]

\* a caller invokes wmcli.win_type(win)
ApiWinType ==
    /\ pc = "session"
    /\ \E reply \in AtomReplies :
         LET r == win_type(reply) IN
         /\ xdata' = Some([call |-> "win_type", reply |-> reply])
         /\ ret' = Some(r)
         /\ IF r.ok THEN Finish("ok", NoError) ELSE Finish("err", r.err)
    /\ UNCHANGED <<opt, lastCall, run, execute, checks, wm, loc, wire, calls, mr, srv, out>>

\* a caller invokes wmcli.win_state(win)
ApiWinState ==
    /\ pc = "session"
    /\ \E reply \in AtomReplies :
         LET r == win_state(reply) IN
         /\ xdata' = Some([call |-> "win_state", reply |-> reply])
         /\ ret' = Some(r)
         /\ IF r.ok THEN Finish("ok", NoError) ELSE Finish("err", r.err)
    /\ UNCHANGED <<opt, lastCall, run, execute, checks, wm, loc, wire, calls, mr, srv, out>>

\* --- win_attributes() and the integer decoders of model.rs ------------------

InvalidWinClass(val) == <<"InvalidWinClass", val>>
InvalidWinMap(val) == <<"InvalidWinMap", val>>

\* xproto::WindowClass and xproto::MapState as u32
COPY_FROM_PARENT == 0
INPUT_OUTPUT == 1
INPUT_ONLY == 2
UNMAPPED == 0
UNVIEWABLE == 1
VIEWABLE == 2

\* WinClass::from reporting every unknown class as the same error
WinClass_from_anon(val) ==
    IF val = COPY_FROM_PARENT THEN [ok |-> TRUE, err |-> NoError, value |-> "CopyFromParent"]
    ELSE IF val = INPUT_ONLY THEN [ok |-> TRUE, err |-> NoError, value |-> "InputOnly"]
    ELSE IF val = INPUT_OUTPUT THEN [ok |-> TRUE, err |-> NoError, value |-> "InputOutput"]
    ELSE [ok |-> FALSE, err |-> InvalidWinClass(0)]

\* WinClass::from
WinClass_from(val) ==
    IF val = COPY_FROM_PARENT THEN [ok |-> TRUE, err |-> NoError, value |-> "CopyFromParent"]
    ELSE IF val = INPUT_ONLY THEN [ok |-> TRUE, err |-> NoError, value |-> "InputOnly"]
    ELSE IF val = INPUT_OUTPUT THEN [ok |-> TRUE, err |-> NoError, value |-> "InputOutput"]
    ELSE [ok |-> FALSE, err |-> InvalidWinClass(val)]

\* WinMap::from
WinMap_from(val) ==
    IF val = UNMAPPED THEN [ok |-> TRUE, err |-> NoError, value |-> "Unmapped"]
    ELSE IF val = UNVIEWABLE THEN [ok |-> TRUE, err |-> NoError, value |-> "Unviewable"]
    ELSE IF val = VIEWABLE THEN [ok |-> TRUE, err |-> NoError, value |-> "Viewable"]
    ELSE [ok |-> FALSE, err |-> InvalidWinMap(val)]

\* impl From<u32> for WinGravity
WinGravity_from(val) == IF val = 5 THEN "Center" ELSE "None"

\* GetWindowAttributesReply: class is a u16 and map_state a u8 on the wire
AttrReplies ==
    {None} \cup {Some([class |-> c, map_state |-> m]) :
                    c \in {0, 1, 2, 3, 7, 65535}, m \in {0, 1, 2, 3, 9, 255}}

\* WindowManager::win_attributes: the class is decoded before the map state
win_attributes(reply) ==
    IF is_none(reply) THEN [ok |-> FALSE, err |-> ReplyError]
    ELSE LET c == WinClass_from(unwrap(reply).class)
             m == WinMap_from(unwrap(reply).map_state) IN
         IF ~c.ok THEN [ok |-> FALSE, err |-> c.err]
         ELSE IF ~m.ok THEN [ok |-> FALSE, err |-> m.err]
         ELSE [ok |-> TRUE, err |-> NoError, value |-> <<c.value, m.value>>]

\* a caller invokes wmcli.win_attributes(win)
ApiWinAttributes ==
    /\ pc = "session"
    /\ \E reply \in AttrReplies :
         LET r == win_attributes(reply) IN
         /\ xdata' = Some([call |-> "win_attributes", reply |-> reply])
         /\ ret' = Some(r)
         /\ IF r.ok THEN Finish("ok", NoError) ELSE Finish("err", r.err)
    /\ UNCHANGED <<opt, lastCall, run, execute, checks, wm, loc, wire, calls, mr, srv, out>>

\* raw gravity values handed to WinGravity::from
RawGravities == {0, 1, 4, 5, 6, 10, 255, 256, 1029, -1}

\* a caller converts a raw integer with WinGravity::from(val)
GravityFrom ==
    /\ pc = "start"
    /\ run' = "model"
    /\ \E val \in RawGravities :
         /\ xdata' = Some([call |-> "WinGravity_from", val |-> val])
         /\ ret' = Some([ok |-> TRUE, err |-> NoError, value |-> WinGravity_from(val)])
    /\ Finish("ok", NoError)
    /\ UNCHANGED <<opt, lastCall, execute, checks, wm, loc, wire, calls, mr, srv, out>>

\* --- model.rs: rendering and parsing of WinShape and WinPosition -----------

\* a str is the sequence of its characters
UpperCase == <<"A", "B", "C", "D", "E", "F", "G", "H", "I", "J", "K", "L", "M",
               "N", "O", "P", "Q", "R", "S", "T", "U", "V", "W", "X", "Y", "Z">>
LowerCase == <<"a", "b", "c", "d", "e", "f", "g", "h", "i", "j", "k", "l", "m",
               "n", "o", "p", "q", "r", "s", "t", "u", "v", "w", "x", "y", "z">>

\* str::to_lowercase and str::to_uppercase on the characters met here
to_lowercase(str) ==
    [i \in 1..Len(str) |->
        IF \E k \in 1..26 : UpperCase[k] = str[i]
        THEN LowerCase[CHOOSE k \in 1..26 : UpperCase[k] = str[i]]
        ELSE str[i]]
to_uppercase(str) ==
    [i \in 1..Len(str) |->
        IF \E k \in 1..26 : LowerCase[k] = str[i]
        THEN UpperCase[CHOOSE k \in 1..26 : LowerCase[k] = str[i]]
        ELSE str[i]]

\* format!("{:?}", self) of the derived Debug: the name of the variant
WinShape_debug(v) ==
    CASE v = "Grow" -> <<"G", "r", "o", "w">>
      [] v = "Max" -> <<"M", "a", "x">>
      [] v = "Halfw" -> <<"H", "a", "l", "f", "w">>
      [] v = "Halfh" -> <<"H", "a", "l", "f", "h">>
      [] v = "Small" -> <<"S", "m", "a", "l", "l">>
      [] v = "Medium" -> <<"M", "e", "d", "i", "u", "m">>
      [] v = "Large" -> <<"L", "a", "r", "g", "e">>
      [] v = "Shrink" -> <<"S", "h", "r", "i", "n", "k">>
      [] v = "Square" -> <<"S", "q", "u", "a", "r", "e">>
      [] v = "UnMax" -> <<"U", "n", "M", "a", "x">>

WinPosition_debug(v) ==
    CASE v = "Center" -> <<"C", "e", "n", "t", "e", "r">>
      [] v = "Left" -> <<"L", "e", "f", "t">>
      [] v = "Right" -> <<"R", "i", "g", "h", "t">>
      [] v = "Top" -> <<"T", "o", "p">>
      [] v = "Bottom" -> <<"B", "o", "t", "t", "o", "m">>
      [] v = "TopLeft" -> <<"T", "o", "p", "L", "e", "f", "t">>
      [] v = "TopRight" -> <<"T", "o", "p", "R", "i", "g", "h", "t">>
      [] v = "BottomLeft" -> <<"B", "o", "t", "t", "o", "m", "L", "e", "f", "t">>
      [] v = "BottomRight" -> <<"B", "o", "t", "t", "o", "m", "R", "i", "g", "h", "t">>
      [] v = "LeftCenter" -> <<"L", "e", "f", "t", "C", "e", "n", "t", "e", "r">>
      [] v = "RightCenter" -> <<"R", "i", "g", "h", "t", "C", "e", "n", "t", "e", "r">>
      [] v = "TopCenter" -> <<"T", "o", "p", "C", "e", "n", "t", "e", "r">>
      [] v = "BottomCenter" -> <<"B", "o", "t", "t", "o", "m", "C", "e", "n", "t", "e", "r">>

\* impl fmt::Display for WinShape / for WinPosition
WinShape_fmt(v) == to_lowercase(WinShape_debug(v))
WinPosition_fmt(v) == to_lowercase(WinPosition_debug(v))

InvalidWinShape(val) == <<"InvalidWinShape", val>>
InvalidWinPosition(val) == <<"InvalidWinPosition", val>>

\* the string patterns of WinShape::try_from, in match order
WinShapePatterns ==
    << <<<<"g", "r", "o", "w">>, "Grow">>,
       <<<<"m", "a", "x">>, "Max">>,
       <<<<"h", "a", "l", "f", "w">>, "Halfw">>,
       <<<<"h", "a", "l", "f", "h">>, "Halfh">>,
       <<<<"s", "m", "a", "l", "l">>, "Small">>,
       <<<<"m", "e", "d", "i", "u", "m">>, "Medium">>,
       <<<<"l", "a", "r", "g", "e">>, "Large">>,
       <<<<"s", "h", "r", "i", "n", "k">>, "Shrink">>,
       <<<<"u", "n", "m", "a", "x">>, "UnMax">> >>

\* the string patterns of WinPosition::try_from, in match order
WinPositionPatterns ==
    << <<<<"c", "e", "n", "t", "e", "r">>, "Center">>,
       <<<<"l", "e", "f", "t">>, "Left">>,
       <<<<"r", "i", "g", "h", "t">>, "Right">>,
       <<<<"t", "o", "p">>, "Top">>,
       <<<<"b", "o", "t", "t", "o", "m">>, "Bottom">>,
       <<<<"t", "o", "p", "-", "l", "e", "f", "t">>, "TopLeft">>,
       <<<<"t", "o", "p", "-", "r", "i", "g", "h", "t">>, "TopRight">>,
       <<<<"b", "o", "t", "t", "o", "m", "-", "l", "e", "f", "t">>, "BottomLeft">>,
       <<<<"b", "o", "t", "t", "o", "m", "-", "r", "i", "g", "h", "t">>, "BottomRight">>,
       <<<<"l", "e", "f", "t", "-", "c", "e", "n", "t", "e", "r">>, "LeftCenter">>,
       <<<<"r", "i", "g", "h", "t", "-", "c", "e", "n", "t", "e", "r">>, "RightCenter">>,
       <<<<"t", "o", "p", "-", "c", "e", "n", "t", "e", "r">>, "TopCenter">>,
       <<<<"b", "o", "t", "t", "o", "m", "-", "c", "e", "n", "t", "e", "r">>, "BottomCenter">> >>

\* match val.to_lowercase().as_ref() { pattern => Ok(variant), .. }
RECURSIVE match_str(_, _)
match_str(arms, lowered) ==
    IF arms = <<>> THEN <<>>
    ELSE IF lowered = Head(arms)[1] THEN <<Head(arms)[2]>>
    ELSE match_str(Tail(arms), lowered)

\* impl TryFrom<&str> for WinShape
WinShape_try_from(val) ==
    LET m == match_str(WinShapePatterns, to_lowercase(val)) IN
    IF m = <<>> THEN [ok |-> FALSE, err |-> InvalidWinShape(val)]
    ELSE [ok |-> TRUE, err |-> NoError, value |-> m[1]]

\* impl TryFrom<&str> for WinPosition
WinPosition_try_from(val) ==
    LET m == match_str(WinPositionPatterns, to_lowercase(val)) IN
    IF m = <<>> THEN [ok |-> FALSE, err |-> InvalidWinPosition(val)]
    ELSE [ok |-> TRUE, err |-> NoError, value |-> m[1]]

\* a text in the letter cases a caller may type it
Cased(str) ==
    {str, to_uppercase(str), to_lowercase(str),
     [i \in 1..Len(str) |-> IF i = 1 THEN to_uppercase(str)[i] ELSE to_lowercase(str)[i]]}

\* the texts handed to the parsers: the renderings and Debug names of the
\* variants, the patterns of the parser, and a text that is neither
ShapeTexts ==
    UNION {Cased(WinShape_fmt(v)) \cup {WinShape_debug(v)} : v \in WinShape}
    \cup UNION {Cased(WinShapePatterns[i][1]) : i \in 1..Len(WinShapePatterns)}
    \cup {<<>>, <<"m", "a", "x", " ">>}
PositionTexts ==
    UNION {Cased(WinPosition_fmt(v)) \cup {WinPosition_debug(v)} : v \in WinPosition}
    \cup UNION {Cased(WinPositionPatterns[i][1]) : i \in 1..Len(WinPositionPatterns)}
    \cup {<<>>, <<"t", "o", "p", "_", "l", "e", "f", "t">>}

\* a caller parses a shape: WinShape::try_from(val)
ShapeTryFrom ==
    /\ pc = "start"
    /\ run' = "model"
    /\ \E val \in ShapeTexts :
         LET r == WinShape_try_from(val) IN
         /\ xdata' = Some([call |-> "WinShape_try_from", val |-> val])
         /\ ret' = Some(r)
         /\ IF r.ok THEN Finish("ok", NoError) ELSE Finish("err", r.err)
    /\ UNCHANGED <<opt, lastCall, execute, checks, wm, loc, wire, calls, mr, srv, out>>

\* a caller parses a position: WinPosition::try_from(val)
PositionTryFrom ==
    /\ pc = "start"
    /\ run' = "model"
    /\ \E val \in PositionTexts :
         LET r == WinPosition_try_from(val) IN
         /\ xdata' = Some([call |-> "WinPosition_try_from", val |-> val])
         /\ ret' = Some(r)
         /\ IF r.ok THEN Finish("ok", NoError) ELSE Finish("err", r.err)
    /\ UNCHANGED <<opt, lastCall, execute, checks, wm, loc, wire, calls, mr, srv, out>>

Next ==
    \/ New \/ Size \/ Location \/ Shape \/ Pos
    \/ PlaceConnect \/ PlaceActiveWin \/ PlaceBorders \/ PlaceGeometry
    \/ PlaceShape \/ PlaceMove \/ PlaceDispatch
    \/ Connect \/ ApiMoveResizeWin
    \/ List \/ ApiWinName \/ ApiWinType \/ ApiWinState
    \/ ApiWinAttributes \/ GravityFrom \/ ShapeTryFrom \/ PositionTryFrom

Spec == Init /\ [][Next]_vars

-----------------------------------------------------------------------------
(* Properties                                                               *)

PlaceDone == run = "place" /\ pc = "done"
IsMoveResize(m) == m.type = atoms.NET_MOVERESIZE_WINDOW
IsUnmaximize(m, win) ==
    /\ m.type = atoms.NET_WM_STATE
    /\ m.window = win
    /\ m.data = <<0, atoms.NET_WM_STATE_MAXIMIZED_HORZ, atoms.NET_WM_STATE_MAXIMIZED_VERT, 0, 0>>
\* the send_event invocations that carried a move/resize message
MoveResizeCalls == SelectSeq(calls, LAMBDA c : IsMoveResize(c.msg))
OnlyPos ==
    /\ is_some(opt.pos) /\ is_none(opt.shape)
    /\ is_none(opt.w) /\ is_none(opt.h) /\ is_none(opt.x) /\ is_none(opt.y)

\* C1: a place() that returns success has invoked move_resize_win exactly once
\* when a size, location, shape or position was set, and not at all otherwise.
C1_DispatchIffOptionSet ==
    (PlaceDone /\ result = "ok") =>
        Len(mr) = (IF \/ is_some(opt.w) \/ is_some(opt.h) \/ is_some(opt.x)
                      \/ is_some(opt.y) \/ is_some(opt.shape) \/ is_some(opt.pos)
                   THEN 1 ELSE 0)

C1_Witness ==
    PlaceDone /\ result = "ok" /\ OnlyPos /\ Len(mr) = 1

\* what the successful send_event invocations cs put on the wire: a move/resize
\* message twice, any other message once, each to the root and flushed
RECURSIVE WireOf(_)
WireOf(cs) ==
    IF cs = <<>> THEN <<>>
    ELSE LET c == Head(cs)
             e == [dst |-> wm.root,
                   mask |-> {"SUBSTRUCTURE_REDIRECT", "SUBSTRUCTURE_NOTIFY"},
                   msg |-> c.msg, flushed |-> TRUE]
         IN (IF IsMoveResize(c.msg) THEN <<e, e>> ELSE <<e>>) \o WireOf(Tail(cs))

\* C2: every successful send_event of a _NET_MOVERESIZE_WINDOW message puts
\* exactly two identical copies on the wire, each sent to the root window and
\* flushed; every successful send_event of another message puts exactly one.
C2_MoveResizeSentTwice ==
    LET exp == WireOf(SelectSeq(calls, LAMBDA c : c.ok)) IN
    /\ Len(wire) >= Len(exp)
    /\ SubSeq(wire, 1, Len(exp)) = exp
    /\ (\A i \in 1..Len(calls) : calls[i].ok) => wire = exp

C2_Witness ==
    /\ PlaceDone /\ result = "ok" /\ Len(calls) = 2 /\ Len(wire) = 3
    /\ wire[2] = wire[3] /\ IsMoveResize(wire[3].msg)

\* C3: after any sequence of builder calls the builder never holds both an
\* explicit size and a named shape, nor both an explicit location and a
\* named position.
C3_SlotsExclusive ==
    /\ ~((is_some(opt.w) \/ is_some(opt.h)) /\ is_some(opt.shape))
    /\ ~((is_some(opt.x) \/ is_some(opt.y)) /\ is_some(opt.pos))

C3_Witness ==
    lastCall = "shape" /\ is_some(opt.w) /\ is_some(opt.x) /\ is_none(opt.shape)

\* C4: for every move_resize_win call whose gravity is absent or below 256,
\* each presence bit of the flags word (x = bit 8, y = 9, width = 10,
\* height = 11) is set iff that dimension was supplied, the payload word of
\* a dimension not supplied is 0, and a request with only width and height
\* sets exactly the width and height bits.
C4_PresenceBits ==
    \A i \in 1..Len(mr) :
        LET a == mr[i]
            m == MoveResizeCalls[i].msg
            f == m.data[1]
        IN (is_none(a.gravity) \/ (a.gravity[1] >= 0 /\ a.gravity[1] < 256)) =>
           /\ (Bit(f, 8) = 1) <=> is_some(a.x)
           /\ (Bit(f, 9) = 1) <=> is_some(a.y)
           /\ (Bit(f, 10) = 1) <=> is_some(a.w)
           /\ (Bit(f, 11) = 1) <=> is_some(a.h)
           /\ is_none(a.x) => m.data[2] = 0
           /\ is_none(a.y) => m.data[3] = 0
           /\ is_none(a.w) => m.data[4] = 0
           /\ is_none(a.h) => m.data[5] = 0
           /\ (is_none(a.x) /\ is_none(a.y) /\ is_some(a.w) /\ is_some(a.h)) =>
                  (f \div 256) % 16 = 12

C4_Witness ==
    /\ run = "api" /\ pc = "done" /\ Len(mr) = 1
    /\ mr[1].gravity = Some(255) /\ is_none(mr[1].x) /\ is_none(mr[1].y)
    /\ is_some(mr[1].w) /\ is_some(mr[1].h)
    /\ calls[1].msg.data = <<255 + 1024 + 2048, 0, 0, 300, 300>>

\* C5: a placement whose only option is the position Left or Right dispatches
\* a move/resize whose y presence bit is clear, and one whose only option is
\* Top or Bottom a move/resize whose x presence bit is clear.
C5_UnsetAxisOmitted ==
    (run = "place" /\ OnlyPos) =>
        \A i \in 1..Len(MoveResizeCalls) :
            LET f == MoveResizeCalls[i].msg.data[1] IN
            /\ opt.pos[1] \in {"Left", "Right"} => Bit(f, 9) = 0 /\ Bit(f, 8) = 1
            /\ opt.pos[1] \in {"Top", "Bottom"} => Bit(f, 8) = 0 /\ Bit(f, 9) = 1

C5_Witness ==
    /\ PlaceDone /\ result = "ok" /\ OnlyPos /\ opt.pos = Some("Right")
    /\ Len(MoveResizeCalls) = 1
    /\ MoveResizeCalls[1].msg.data[1] = 256

\* C6: whenever an explicit location or a named position is set, the
\* move/resize dispatched by place() carries gravity 0 in the low byte of its
\* flags; the center gravity is dispatched only by placements with a named
\* shape and neither a location nor a position.
C6_GravityOnlyWithoutPositioning ==
    run = "place" =>
        \A i \in 1..Len(MoveResizeCalls) :
            LET g == MoveResizeCalls[i].msg.data[1] % 256 IN
            /\ (is_some(opt.x) \/ is_some(opt.y) \/ is_some(opt.pos)) => g = 0
            /\ g = 5 => /\ is_some(opt.shape)
                        /\ is_none(opt.x) /\ is_none(opt.y) /\ is_none(opt.pos)

C6_Witness ==
    /\ PlaceDone /\ result = "ok" /\ opt.shape = Some("Halfw") /\ is_some(opt.pos)
    /\ Len(MoveResizeCalls) = 1
    /\ MoveResizeCalls[1].msg.data[1] % 256 = 0

\* C7: in every place() run with a named position or a named shape other
\* than Max/UnMax, an unmaximize message (action remove, both maximize atoms)
\* for the target window is on the wire before the move/resize message, and
\* when an unmaximize send failed no move/resize message is sent.
C7_UnmaximizeFirst ==
    (/\ run = "place"
     /\ \/ is_some(opt.pos)
        \/ (is_some(opt.shape) /\ opt.shape[1] \notin {"Max", "UnMax"})) =>
        /\ \A j \in 1..Len(wire) :
              IsMoveResize(wire[j].msg) =>
                  \E i \in 1..(j - 1) : IsUnmaximize(wire[i].msg, wire[j].msg.window)
        /\ (\E i \in 1..Len(calls) : ~IsMoveResize(calls[i].msg) /\ ~calls[i].ok) =>
              /\ mr = <<>>
              /\ \A j \in 1..Len(wire) : ~IsMoveResize(wire[j].msg)

C7_Witness ==
    /\ PlaceDone /\ result = "ok" /\ opt.shape = Some("Small") /\ is_none(opt.pos)
    /\ Len(wire) = 3 /\ IsUnmaximize(wire[1].msg, loc.win) /\ IsMoveResize(wire[2].msg)

\* place() has run shape_win for shape s and holds its result in sw, sh
ShapeApplied(s) == run = "place" /\ opt.shape = Some(s) /\ pc \in {"move", "dispatch"}
Min(a, b) == IF a <= b THEN a ELSE b

\* C8 as stated: with fw = work_width - bw and fh = work_height - bh, Halfw
\* yields (fw/2, fh), Halfh yields (fw, fh/2) and Small yields (fw/2, fh/2)
\* (read on the work areas whose halves hold the borders).
C8_Original ==
    LET fw == wm.work_width - (loc.bl + loc.br)
        fh == wm.work_height - (loc.bt + loc.bb)
    IN (loc.bl + loc.br <= wm.work_width \div 2 /\ loc.bt + loc.bb <= wm.work_height \div 2) =>
       /\ ShapeApplied("Halfw") => loc.sw = Some(fw \div 2) /\ loc.sh = Some(fh)
       /\ ShapeApplied("Halfh") => loc.sw = Some(fw) /\ loc.sh = Some(fh \div 2)
       /\ ShapeApplied("Small") => loc.sw = Some(fw \div 2) /\ loc.sh = Some(fh \div 2)

\* C8 amended: Halfw yields (work_width/2 - bw, fh), Halfh yields
\* (fw, work_height/2 - bh) and Small yields (work_width/2 - bw,
\* work_height/2 - bh), the differences taken modulo 2^32.
C8_HalfIsHalfWorkAreaLessBorder ==
    LET bw == loc.bl + loc.br
        bh == loc.bt + loc.bb
        fw == wm.work_width - bw
        fh == wm.work_height - bh
        hw == (wm.work_width \div 2) - bw
        hh == (wm.work_height \div 2) - bh
    IN /\ ShapeApplied("Halfw") => loc.sw = Some(hw) /\ loc.sh = Some(fh)
       /\ ShapeApplied("Halfh") => loc.sw = Some(fw) /\ loc.sh = Some(hh)
       /\ ShapeApplied("Small") => loc.sw = Some(hw) /\ loc.sh = Some(hh)

C8_Witness ==
    /\ ShapeApplied("Halfw") /\ wm.work_width = 1000 /\ loc.bl + loc.br = 20
    /\ loc.sw = Some(480) /\ loc.sh = Some(780)

\* C9 as stated: one Grow step yields min(W - b, floor((w - b) * 1.01) + b),
\* likewise for the height (read on b <= w and b <= W), and for w = 500,
\* b = 20, W = 1000 the width 505.
C9_Original ==
    LET bw == loc.bl + loc.br
        bh == loc.bt + loc.bb
    IN ShapeApplied("Grow") =>
        /\ (bw <= loc.w /\ bw <= wm.work_width) =>
              loc.sw = Some(Min(wm.work_width - bw, ((loc.w - bw) * 101) \div 100 + bw))
        /\ (bh <= loc.h /\ bh <= wm.work_height) =>
              loc.sh = Some(Min(wm.work_height - bh, ((loc.h - bh) * 101) \div 100 + bh))
        /\ (loc.w = 500 /\ bw = 20 /\ wm.work_width = 1000) => loc.sw = Some(505)

\* C9 amended: for b <= w and b <= W one Grow step yields
\* min(W - b, floor((w - b) * 1.01) + b), likewise for the height, and for
\* w = 500, b = 20, W = 1000 the width 504.
C9_GrowStep ==
    LET bw == loc.bl + loc.br
        bh == loc.bt + loc.bb
    IN ShapeApplied("Grow") =>
        /\ (bw <= loc.w /\ bw <= wm.work_width) =>
              loc.sw = Some(Min(wm.work_width - bw, ((loc.w - bw) * 101) \div 100 + bw))
        /\ (bh <= loc.h /\ bh <= wm.work_height) =>
              loc.sh = Some(Min(wm.work_height - bh, ((loc.h - bh) * 101) \div 100 + bh))
        /\ (loc.w = 500 /\ bw = 20 /\ wm.work_width = 1000) => loc.sw = Some(504)

C9_Witness ==
    /\ ShapeApplied("Grow") /\ loc.w = 500 /\ loc.bl + loc.br = 20
    /\ wm.work_width = 1000 /\ loc.sw = Some(504)

\* C10: Grow applied repeatedly, each result fed back as the current size,
\* reaches width work_width - bw and height work_height - bh after finitely
\* many steps from every starting size: a Grow step that returns the current
\* width (height) has therefore reached work_width - bw (work_height - bh).
\* Read on the sizes and work areas where no subtraction underflows.
C10_GrowStopsOnlyAtFullSize ==
    LET bw == loc.bl + loc.br
        bh == loc.bt + loc.bb
    IN (/\ ShapeApplied("Grow")
        /\ bw <= loc.w /\ bw <= wm.work_width \div 2
        /\ bh <= loc.h /\ bh <= wm.work_height \div 2) =>
        /\ loc.sw = Some(loc.w) => loc.w = wm.work_width - bw
        /\ loc.sh = Some(loc.h) => loc.h = wm.work_height - bh

\* C11: a Shrink step never yields a width below 100 + horizontal border or a
\* height below 100 + vertical border (as u32 values), and a size whose
\* border-excluded content is exactly 100 comes back unchanged (width 120 with
\* border 20 stays 120).
C11_ShrinkFloor ==
    LET bw == loc.bl + loc.br
        bh == loc.bt + loc.bb
    IN ShapeApplied("Shrink") =>
        /\ is_some(loc.sw) /\ UGe(unwrap(loc.sw), 100 + bw)
        /\ is_some(loc.sh) /\ UGe(unwrap(loc.sh), 100 + bh)
        /\ loc.w - bw = 100 => loc.sw = Some(loc.w)
        /\ loc.h - bh = 100 => loc.sh = Some(loc.h)

C11_Witness ==
    /\ ShapeApplied("Shrink") /\ loc.w = 120 /\ loc.bl + loc.br = 20
    /\ loc.sw = Some(120) /\ loc.sh = Some(120)

\* C12: with f the border-excluded short side of the work area (work_height -
\* bh when work_height < work_width, work_width - bw otherwise), Medium yields
\* the short side 0.75 * f and the long side 4/3 of that, which is f; Large
\* yields the short side f and the long side 4/3 * f; each side is delivered
\* in whole pixels, the fraction cut off.  Read where the borders fit in the
\* work area.
C12_MediumLarge ==
    LET bw == loc.bl + loc.br
        bh == loc.bt + loc.bb
        landscape == wm.work_height < wm.work_width
        f == IF landscape THEN wm.work_height - bh ELSE wm.work_width - bw
        short == IF landscape THEN loc.sh ELSE loc.sw
        long == IF landscape THEN loc.sw ELSE loc.sh
    IN (bw <= wm.work_width /\ bh <= wm.work_height) =>
        /\ ShapeApplied("Medium") => short = Some((3 * f) \div 4) /\ long = Some(f)
        /\ ShapeApplied("Large") => short = Some(f) /\ long = Some((4 * f) \div 3)

C12_Witness ==
    /\ ShapeApplied("Medium") /\ wm.work_width = 1000 /\ wm.work_height = 800
    /\ loc.bt + loc.bb = 20 /\ loc.sh = Some(585) /\ loc.sw = Some(780)

\* place() has no positioning request, so it keeps the gravity of shape_win
NoPositioning == is_none(opt.pos) /\ is_none(opt.x) /\ is_none(opt.y)

\* C13 as stated: for the shape with no sizing rule of its own (Square) the
\* layout computation yields no width, no height and gravity none.
C13_Original ==
    (ShapeApplied("Square") /\ NoPositioning) =>
        loc.sw = None /\ loc.sh = None /\ loc.gravity = None

\* C13: for the shape with no sizing rule of its own (Square) the layout
\* computation yields no width and no height, and the center gravity (5) like
\* every shape other than Max and UnMax.
C13_SquareKeepsSizeCenterGravity ==
    (ShapeApplied("Square") /\ NoPositioning) =>
        loc.sw = None /\ loc.sh = None /\ loc.gravity = Some(5)

C13_Witness ==
    /\ PlaceDone /\ result = "ok" /\ opt.shape = Some("Square") /\ NoPositioning
    /\ loc.sw = None /\ loc.gravity = Some(5)
    /\ Len(MoveResizeCalls) = 1 /\ MoveResizeCalls[1].msg.data = <<5, 0, 0, 0, 0>>

\* place() has run move_win and holds its result in x, y
MoveApplied(P) == run = "place" /\ pc = "dispatch" /\ is_some(opt.pos) /\ unwrap(opt.pos) \in P
\* max(0, a - b) for a work-area extent a and the u32 value b held as a residue
MonusU(a, b) == IF b < 0 \/ b > a THEN 0 ELSE a - b

\* C14: for every final size (w, h), borders (bw, bh) and work area, Right
\* yields x = work_width - w - bw and Center x = work_width/2 - (w + bw)/2,
\* Bottom and Center likewise for y, each replaced by 0 when it would be
\* negative; the sums are the sums of the integers, not their 32-bit residues.
C14_RightBottomCenter ==
    LET w == unwrap_or(loc.sw, loc.w)
        h == unwrap_or(loc.sh, loc.h)
        bw == loc.bl + loc.br
        bh == loc.bt + loc.bb
        \* w + bw and (w + bw) / 2 as integers; a sum beyond 2^31 - 1 is held as -1
        sumw == IF w < 0 THEN -1 ELSE w + bw
        sumh == IF h < 0 THEN -1 ELSE h + bh
        halfw == IF w < 0 THEN -1 ELSE (w + bw) \div 2
        halfh == IF h < 0 THEN -1 ELSE (h + bh) \div 2
    IN /\ MoveApplied({"Right"}) => loc.x = Some(MonusU(wm.work_width, sumw))
       /\ MoveApplied({"Bottom"}) => loc.y = Some(MonusU(wm.work_height, sumh))
       /\ MoveApplied({"Center"}) =>
            /\ loc.x = Some(MonusU(wm.work_width \div 2, halfw))
            /\ loc.y = Some(MonusU(wm.work_height \div 2, halfh))

\* list() has run on a session that connected and enumerated its windows
Listed ==
    /\ run = "list" /\ pc = "done"
    /\ connect(unwrap(srv)).ok
    /\ windows(unwrap(xdata).all, unwrap(xdata).tree, unwrap(xdata).clientList).ok
ListedWindows == windows(unwrap(xdata).all, unwrap(xdata).tree, unwrap(xdata).clientList).wins

\* C15: listing never aborts or omits a window because that window's detail
\* reads fail: every enumerated window has its row, in order, and the row of a
\* window whose reads all fail shows its id with pid -1, desktop -1, empty
\* name and class and the fallback type.
C15_ListingSurvivesFailedReads ==
    Listed =>
        /\ result = "ok"
        /\ Len(out) = 1 + Len(ListedWindows)
        /\ \A i \in 1..Len(ListedWindows) :
             /\ out[i + 1].id = ListedWindows[i]
             /\ unwrap(xdata).table[ListedWindows[i]] = ReadsNone =>
                  /\ out[i + 1].pid = -1 /\ out[i + 1].desktop = -1
                  /\ out[i + 1].name = "" /\ out[i + 1].class = ""
                  /\ out[i + 1].typ = "Error"

\* win_name has returned
NameDone ==
    /\ run = "api" /\ pc = "done" /\ is_some(ret)
    /\ DOMAIN unwrap(xdata) = {"visible", "name", "legacy"}
\* the property was read, is present and holds a non-empty value
PropPresent(reply) ==
    is_some(reply) /\ unwrap(reply).type # "NONE" /\ unwrap(reply).value # <<>>
\* ... and that value is valid UTF-8
PropUsable(reply) ==
    PropPresent(reply) /\ \A i \in 1..Len(unwrap(reply).value) : unwrap(reply).value[i] < 128

\* C16 as stated: win_name returns the _NET_WM_VISIBLE_NAME value whenever that
\* property is present and non-empty, whatever the other name properties
\* hold, and returns the WM_NAME value only when both _NET_WM_VISIBLE_NAME and
\* _NET_WM_NAME are absent or empty.  Read on the runs where no request for
\* the other two properties would fail.
C16_Original ==
    (NameDone /\ is_some(unwrap(xdata).name) /\ is_some(unwrap(xdata).legacy)) =>
        LET x == unwrap(xdata)
            r == unwrap(ret)
        IN /\ PropPresent(x.visible) => r.ok /\ r.value = unwrap(x.visible).value
           /\ (r.ok /\ r.using = "WM_NAME") =>
                ~PropPresent(x.visible) /\ ~PropPresent(x.name)

\* C16: win_name returns the _NET_WM_VISIBLE_NAME value whenever that property
\* is present, non-empty and valid UTF-8, whatever the other name properties
\* hold, and returns the WM_NAME value only when each of _NET_WM_VISIBLE_NAME
\* and _NET_WM_NAME is absent, empty or not valid UTF-8.
C16_VisibleNameFirst ==
    NameDone =>
        LET x == unwrap(xdata)
            r == unwrap(ret)
        IN /\ PropUsable(x.visible) =>
                /\ r.ok /\ r.value = unwrap(x.visible).value
                /\ r.using = "_NET_WM_VISIBLE_NAME"
           /\ (r.ok /\ r.using = "WM_NAME") =>
                /\ ~PropUsable(x.visible) /\ ~PropUsable(x.name)
                /\ r.value = unwrap(x.legacy).value

C16_Witness ==
    /\ NameDone
    /\ unwrap(xdata).visible = Some(PropReply("UTF8_STRING", <<65>>))
    /\ unwrap(xdata).name = Some(PropReply("UTF8_STRING", <<66>>))
    /\ unwrap(ret).ok /\ unwrap(ret).value = <<65>>

\* the events of the wire that follow those of the successful send_event calls
FailedTail ==
    SubSeq(wire, Len(WireOf(SelectSeq(calls, LAMBDA c : c.ok))) + 1, Len(wire))

\* C17: a send_event in which a send or a flush fails returns the connection
\* error and sends nothing further: the failed call is the last one and ends
\* the operation with that error, an event whose flush failed is the last one
\* on the wire, a failed call leaves at most one copy of a message other than
\* move/resize and at most the two deliveries of a move/resize message, and a
\* move/resize whose first delivery failed (not sent, or sent and not flushed)
\* has no second delivery.
C17_NoRetryAfterFailure ==
    /\ \A i \in 1..Len(calls) :
         ~calls[i].ok =>
            /\ i = Len(calls)
            /\ pc = "done" /\ result = "err" /\ error = ConnectionError
    /\ \A i \in 1..Len(wire) : ~wire[i].flushed => i = Len(wire)
    /\ (calls # <<>> /\ ~calls[Len(calls)].ok) =>
         LET m == calls[Len(calls)].msg
             t == FailedTail
         IN /\ Len(t) <= (IF IsMoveResize(m) THEN 2 ELSE 1)
            /\ \A i \in 1..Len(t) : t[i].msg = m /\ t[i].dst = wm.root
            /\ \E i \in 0..Len(t) : \A j \in 1..Len(t) : t[j].flushed = (j <= i /\ j < 2)
            /\ (Len(t) >= 1 /\ ~IsMoveResize(m)) => ~t[1].flushed
    /\ (calls = <<>> \/ calls[Len(calls)].ok) => FailedTail = <<>>

C17_Witness ==
    /\ PlaceDone /\ result = "err" /\ error = ConnectionError
    /\ Len(calls) = 2 /\ calls[1].ok /\ ~calls[2].ok /\ IsMoveResize(calls[2].msg)
    /\ Len(FailedTail) = 1 /\ ~FailedTail[1].flushed

\* no option was set on the builder that place() runs on
NoOptionSet ==
    /\ run = "place"
    /\ is_none(opt.w) /\ is_none(opt.h) /\ is_none(opt.x) /\ is_none(opt.y)
    /\ is_none(opt.shape) /\ is_none(opt.pos)
\* place() has resolved its target window (the ids of the model are not 0)
TargetResolved == loc.win # 0
\* place() has read the geometry, its last read (no reply of the model has a
\* zero size)
GeometryWasRead == loc.w # 0 /\ loc.h # 0

\* C18 as stated: with no option set, place() returns success and sends no
\* client message for every target window, also one whose frame extents or
\* geometry cannot be read.
C18_Original ==
    (NoOptionSet /\ pc = "done" /\ TargetResolved) =>
        result = "ok" /\ wire = <<>>

\* C18: with no option set, place() sends no client message, and it returns
\* success exactly when the session, the target window, the frame extents and
\* the geometry were all read; otherwise it returns the error of the read that
\* failed.
C18_NoOptionNoMessage ==
    NoOptionSet =>
        /\ wire = <<>> /\ calls = <<>> /\ mr = <<>>
        /\ pc = "done" =>
             /\ result \in {"ok", "err"}
             /\ (result = "ok") = GeometryWasRead
             /\ result = "err" => error \in {ConnectError, ReplyError} \cup
                    {PropertyNotFound(n) : n \in
                        {"_NET_SUPPORTED", "_NET_WORKAREA", "_NET_WORKAREA height",
                         "_NET_ACTIVE_WINDOW", "_NET_FRAME_EXTENTS"}}

C18_Witness ==
    /\ NoOptionSet /\ pc = "done" /\ result = "ok" /\ GeometryWasRead
    /\ wire = <<>> /\ mr = <<>>

\* C19: connect() is all-or-nothing.  Either it returns a session whose
\* supported set and work-area width and height are populated from the root
\* window's properties (with the root and the screen size), or it returns an
\* error and no session; the steps fail in the order transport, atoms,
\* _NET_SUPPORTED, _NET_WORKAREA, and an absent _NET_SUPPORTED or
\* _NET_WORKAREA gives property-not-found naming that property.
C19_ConnectAllOrNothing ==
    is_some(srv) =>
        LET env == unwrap(srv)
            wa == env.workarea
        IN IF /\ env.x11 /\ env.atomsOk /\ is_some(env.supported)
              /\ is_some(wa) /\ Len(unwrap(wa)) >= 4
           THEN /\ wm.root = env.screen[1]
                /\ wm.width = env.screen[2] /\ wm.height = env.screen[3]
                /\ wm.supported = {unwrap(env.supported)[i] :
                                     i \in 1..Len(unwrap(env.supported))}
                /\ wm.work_width = workarea(wa).w
                /\ wm.work_height = workarea(wa).h
                /\ error \notin {ConnectError, PropertyNotFound("_NET_SUPPORTED"),
                                 PropertyNotFound("_NET_WORKAREA")}
           ELSE /\ wm = NoSession
                /\ pc = "done" /\ result = "err"
                /\ ~env.x11 => error = ConnectError
                /\ (env.x11 /\ ~env.atomsOk) => error = ReplyError
                /\ (env.x11 /\ env.atomsOk /\ is_none(env.supported)) =>
                     error = PropertyNotFound("_NET_SUPPORTED")
                /\ (env.x11 /\ env.atomsOk /\ is_some(env.supported) /\ is_none(wa)) =>
                     error = PropertyNotFound("_NET_WORKAREA")

C19_Witness ==
    /\ run = "api" /\ pc = "done" /\ result = "err" /\ wm = NoSession
    /\ is_some(srv) /\ unwrap(srv).x11 /\ unwrap(srv).atomsOk
    /\ is_some(unwrap(srv).supported) /\ is_none(unwrap(srv).workarea)
    /\ error = PropertyNotFound("_NET_WORKAREA")

\* C20: after a successful connect the session's work_width and work_height
\* are the third and the fourth integer of _NET_WORKAREA, for every 32-bit
\* value published there, whatever the x/y fields and later desktops' records.
C20_WorkAreaIsFirstRecord ==
    (is_some(srv) /\ connect(unwrap(srv)).ok) =>
        /\ wm.work_width = unwrap(unwrap(srv).workarea)[3]
        /\ wm.work_height = unwrap(unwrap(srv).workarea)[4]

\* the session call `call` has returned
CallDone(call) ==
    /\ run \in {"api", "model"} /\ pc = "done" /\ is_some(ret)
    /\ "call" \in DOMAIN unwrap(xdata) /\ unwrap(xdata).call = call
\* the u32 values of the reply the call read
RawValues == unwrap(unwrap(unwrap(xdata).reply))
\* what a decoder with the arms `arms` owes for the raw value val
DecodedAs(arms, val, d) ==
    /\ (\A i \in 1..Len(arms) : val # arms[i][1]) => d = <<"Other", val>>
    /\ \A i \in 1..Len(arms) : val = arms[i][1] => d = <<arms[i][2]>>

AttrRead == unwrap(unwrap(xdata).reply)
UnknownClass(c) == c \notin {COPY_FROM_PARENT, INPUT_ONLY, INPUT_OUTPUT}
UnknownMap(m) == m \notin {UNMAPPED, UNVIEWABLE, VIEWABLE}

C23_ExplicitTargetIgnoresActive ==
    /\ (run = "place" /\ TargetResolved) =>
          loc.win = IF is_some(opt.win) THEN unwrap(opt.win) ELSE 7
    /\ (run = "place" /\ is_some(opt.win)) =>
          error # PropertyNotFound("_NET_ACTIVE_WINDOW")

\* C24: each builder setter changes only its own slot.  size() and shape()
\* leave x, y, pos and the target window as they were, location() and pos()
\* leave w, h, shape and the target window as they were, and shape() called
\* while a size is set, or pos() called while a location is set, leaves the
\* whole builder as it was.
C24_SettersKeepOtherSlot ==
    [][(pc = "build" /\ pc' = "build") =>
         /\ opt'.win = opt.win
         /\ lastCall' \in {"size", "shape"} =>
               opt'.x = opt.x /\ opt'.y = opt.y /\ opt'.pos = opt.pos
         /\ lastCall' \in {"location", "pos"} =>
               opt'.w = opt.w /\ opt'.h = opt.h /\ opt'.shape = opt.shape
         /\ (lastCall' = "shape" /\ (is_some(opt.w) \/ is_some(opt.h))) => opt' = opt
         /\ (lastCall' = "pos" /\ (is_some(opt.x) \/ is_some(opt.y))) => opt' = opt
      ]_vars

C24_Witness ==
    /\ pc = "build" /\ lastCall = "pos"
    /\ is_some(opt.x) /\ is_some(opt.w) /\ is_some(opt.win)
    /\ is_none(opt.pos) /\ is_none(opt.shape)

\* C25: for every gravity passed to move_resize_win, bits 8 to 11 of the
\* dispatched flags word tell exactly which of x, y, width and height were
\* supplied, and no bit above bit 11 is set.
C25_GravityStaysInLowByte ==
    \A i \in 1..Len(mr) :
        LET a == mr[i]
            f == MoveResizeCalls[i].msg.data[1]
        IN /\ (Bit(f, 8) = 1) <=> is_some(a.x)
           /\ (Bit(f, 9) = 1) <=> is_some(a.y)
           /\ (Bit(f, 10) = 1) <=> is_some(a.w)
           /\ (Bit(f, 11) = 1) <=> is_some(a.h)
           /\ f >= 0 /\ f < 4096

\* C26: in a place() run with shape Max, no unmaximize message for the target
\* window is sent after the maximize message, whether or not a position is
\* requested too.
C26_MaxStaysInForce ==
    (run = "place" /\ opt.shape = Some("Max")) =>
        \A i \in 1..Len(calls) : \A j \in 1..Len(calls) :
            (i < j /\ calls[i].msg = maximize_msg(loc.win)) =>
                ~IsUnmaximize(calls[j].msg, loc.win)

\* the borders place() hands to shape_win and move_win
BorderW == loc.bl + loc.br
BorderH == loc.bt + loc.bb
\* the work area holds 100 pixels plus the borders in each dimension
RoomyWorkArea ==
    /\ wm.work_width >= 100 + BorderW
    /\ wm.work_height >= 100 + BorderH
\* the size shape_win returned holds, with the borders, in the work area
ShapeFits ==
    /\ unwrap(loc.sw) >= 0 /\ unwrap(loc.sw) + BorderW <= wm.work_width
    /\ unwrap(loc.sh) >= 0 /\ unwrap(loc.sh) + BorderH <= wm.work_height
Max(a, b) == IF a >= b THEN a ELSE b

FinalW == unwrap_or(loc.sw, loc.w)
FinalH == unwrap_or(loc.sh, loc.h)
\* the final size plus borders fits in the work area
FinalFits ==
    /\ FinalW >= 0 /\ FinalW + BorderW <= wm.work_width
    /\ FinalH >= 0 /\ FinalH + BorderH <= wm.work_height

\* C28: whenever the final size plus borders fits in the work area, every
\* position preset keeps the bordered window inside it: x + w + bw is at most
\* work_width for each preset that sets x, and y + h + bh at most work_height
\* for each preset that sets y.
C28_PositionStaysInside ==
    (MoveApplied(WinPosition) /\ FinalFits) =>
        /\ is_some(loc.x) =>
              /\ unwrap(loc.x) >= 0
              /\ unwrap(loc.x) + FinalW + BorderW <= wm.work_width
        /\ is_some(loc.y) =>
              /\ unwrap(loc.y) >= 0
              /\ unwrap(loc.y) + FinalH + BorderH <= wm.work_height

C28_Witness ==
    /\ MoveApplied({"BottomRight"}) /\ FinalFits /\ BorderW > 0
    /\ is_some(loc.x) /\ unwrap(loc.x) > 0
    /\ unwrap(loc.x) + FinalW + BorderW = wm.work_width
    /\ is_some(loc.y) /\ unwrap(loc.y) > 0
    /\ unwrap(loc.y) + FinalH + BorderH = wm.work_height

\* a Shrink step was applied to a window at least as large as its borders
ShrinkApplied == ShapeApplied("Shrink") /\ loc.w >= BorderW /\ loc.h >= BorderH

\* C29 as stated: a Shrink step never yields a width or height larger than
\* the current one, for every current size at least as large as the borders.
C29_Original ==
    ShrinkApplied => /\ unwrap(loc.sw) <= loc.w
                     /\ unwrap(loc.sh) <= loc.h

\* C29: a Shrink step yields a width between 100 plus the border and the
\* current width when the current width less the border is at least 100, and
\* exactly 100 plus the border, which is more than the current width, when it
\* is less; likewise for the height.
C29_ShrinkNeverGrowsAboveFloor ==
    ShrinkApplied =>
        /\ IF loc.w - BorderW >= 100
           THEN 100 + BorderW <= unwrap(loc.sw) /\ unwrap(loc.sw) <= loc.w
           ELSE unwrap(loc.sw) = 100 + BorderW /\ unwrap(loc.sw) > loc.w
        /\ IF loc.h - BorderH >= 100
           THEN 100 + BorderH <= unwrap(loc.sh) /\ unwrap(loc.sh) <= loc.h
           ELSE unwrap(loc.sh) = 100 + BorderH /\ unwrap(loc.sh) > loc.h

C29_Witness ==
    /\ ShrinkApplied /\ BorderW = 20 /\ BorderH = 20
    /\ loc.w = 500 /\ loc.sw = Some(495)
    /\ loc.h = 400 /\ loc.sh = Some(396)

\* C30: parsing the Display output of a WinShape or WinPosition variant, in
\* any letter case, returns that variant.
C30_ParseOfRendering ==
    /\ CallDone("WinShape_try_from") =>
          \A v \in WinShape :
              unwrap(xdata).val \in Cased(WinShape_fmt(v)) =>
                  unwrap(ret).ok /\ unwrap(ret).value = v
    /\ CallDone("WinPosition_try_from") =>
          \A v \in WinPosition :
              unwrap(xdata).val \in Cased(WinPosition_fmt(v)) =>
                  unwrap(ret).ok /\ unwrap(ret).value = v

====
